---- MODULE Spec2Model ----
(***************************************************************************)
(* Streaming chat orchestrator: the push-channel chat handler, the stop    *)
(* endpoint, the consumer bookkeeping, the session catalog and the         *)
(* session-id counter, as state machines over the process-wide variables   *)
(* of chat.js and of the push-channel module (src/unnamed/part_000).       *)
(*                                                                         *)
(* Strings are sequences of one-character strings, so that includes(),     *)
(* indexOf(), substring(), trim(), parseInt() and toString() are computed  *)
(* the way the JavaScript computes them.  The empty sequence stands for    *)
(* every falsy string-like value (undefined, null, '').                    *)
(***************************************************************************)
EXTENDS Integers, Sequences, FiniteSets, TLC

(***************************************************************************)
(* Bounds of the model.                                                    *)
(***************************************************************************)
MaxInv == 2
MaxSolo == 1
MaxStops == 1
MaxBus == 3
MaxChatBus == 2
MaxFaults == 1
MaxLogins == 2
MaxSessions == 1
MaxMints == 12
MaxLastId == 1
MaxSyncs == 2
MaxLocal == 1
MaxTokens == 5
MaxPosts == 16
MaxRich == 2

(***************************************************************************)
(* String primitives.                                                      *)
(***************************************************************************)
EmptyStr == << >>

Truthy(s) == Len(s) > 0

Min(S) == CHOOSE x \in S : \A y \in S : x <= y

Max(S) == CHOOSE x \in S : \A y \in S : x >= y

Clamp(i, n) == IF i < 0 THEN 0 ELSE IF i > n THEN n ELSE i

\* String.prototype.substring(a, b): 0-based, clamped, arguments swapped when a > b.
Substring(s, a, b) ==
  LET ca == Clamp(a, Len(s))
      cb == Clamp(b, Len(s))
      lo == IF ca <= cb THEN ca ELSE cb
      hi == IF ca <= cb THEN cb ELSE ca
  IN  IF lo = hi THEN EmptyStr ELSE SubSeq(s, lo + 1, hi)

SubstringFrom(s, a) == Substring(s, a, Len(s))

MatchAt(h, n, i) == \A k \in 1..Len(n) : h[i + k] = n[k]

\* String.prototype.indexOf(n, from): 0-based position of the first match, or -1.
IndexOfFrom(h, n, from) ==
  LET f == Clamp(from, Len(h))
      P == {i \in f..(Len(h) - Len(n)) : MatchAt(h, n, i)}
  IN  IF P = {} THEN -1 ELSE Min(P)

IndexOf(h, n) == IndexOfFrom(h, n, 0)

Includes(h, n) == IndexOf(h, n) >= 0

WhiteSpace == {" ", "\n"}

RECURSIVE TrimStart(_)
TrimStart(s) == IF Len(s) > 0 /\ Head(s) \in WhiteSpace THEN TrimStart(Tail(s)) ELSE s

RECURSIVE TrimEnd(_)
TrimEnd(s) ==
  IF Len(s) > 0 /\ s[Len(s)] \in WhiteSpace THEN TrimEnd(SubSeq(s, 1, Len(s) - 1)) ELSE s

Trim(s) == TrimEnd(TrimStart(s))

Digits == <<"0", "1", "2", "3", "4", "5", "6", "7", "8", "9">>

IsDigit(c) == \E d \in 1..10 : Digits[d] = c

DigitVal(c) == (CHOOSE d \in 1..10 : Digits[d] = c) - 1

\* Number.prototype.toString() of a non-negative integer.
RECURSIVE NumToString(_)
NumToString(n) == IF n < 10 THEN <<Digits[n + 1]>> ELSE NumToString(n \div 10) \o <<Digits[(n % 10) + 1]>>

RECURSIVE DigitsValue(_, _)
DigitsValue(s, acc) ==
  IF Len(s) = 0 \/ ~IsDigit(Head(s)) THEN acc
  ELSE DigitsValue(Tail(s), acc * 10 + DigitVal(Head(s)))

\* parseInt(s): the leading run of decimal digits; NaN (no leading digit) is -1 here,
\* and every caller states what it does with NaN.
NaN == -1

ParseInt(s) ==
  LET t == TrimStart(s)
  IN  IF Len(t) = 0 \/ ~IsDigit(Head(t)) THEN NaN ELSE DigitsValue(t, 0)

\* s.replace(/\D/g, ''): the digits of s.
OnlyDigits(s) == SelectSeq(s, IsDigit)

\* parseInt(id.replace(/\D/g, '')) || 0, the numeric order of session ids.
SessionNum(id) ==
  LET n == ParseInt(OnlyDigits(id)) IN IF n = NaN THEN 0 ELSE n

(***************************************************************************)
(* Maps (plain objects and Map instances) as functions with a finite       *)
(* domain.                                                                 *)
(***************************************************************************)
EmptyMap == [k \in {} |-> EmptyStr]

Has(m, k) == k \in DOMAIN m

Put(m, k, v) == [x \in (DOMAIN m) \cup {k} |-> IF x = k THEN v ELSE m[x]]

Del(m, k) == [x \in (DOMAIN m) \ {k} |-> m[x]]

UNDERSCORE == <<"_">>

\* `${userId}_${sessionId}`: the key of transcripts, counters, buffers and stream table.
SessionKey(u, s) == u \o UNDERSCORE \o s

(***************************************************************************)
(* Program constants and tables.                                           *)
(***************************************************************************)
THINK_START == <<"<", "t", "h", "i", "n", "k", ">">>

THINK_END == <<"<", "/", "t", "h", "i", "n", "k", ">">>

GPT_ANALYSIS == <<"<", "|", "c", "h", "a", "n", "n", "e", "l", "|", ">", "a", "n", "a", "l", "y", "s", "i", "s", "<", "|", "m", "e", "s", "s", "a", "g", "e", "|", ">">>

GPT_END == <<"<", "|", "e", "n", "d", "|", ">">>

GPT_RESPONSE_START == <<"<", "|", "s", "t", "a", "r", "t", "|", ">", "a", "s", "s", "i", "s", "t", "a", "n", "t", "<", "|", "c", "h", "a", "n", "n", "e", "l", "|", ">", "f", "i", "n", "a", "l", "<", "|", "m", "e", "s", "s", "a", "g", "e", "|", ">">>

\* gptOssResponseSignal, the thinking terminator of the gpt-oss branch.
GPT_RESPONSE_SIGNAL == <<"<", "|", "c", "h", "a", "n", "n", "e", "l", "|", ">", "f", "i", "n", "a", "l", "<", "|", "m", "e", "s", "s", "a", "g", "e", "|", ">">>

GPT_OSS_NAME == <<"g", "p", "t", "-", "o", "s", "s", "-", "2", "0", "b">>

STR_3 == <<"3">>

STR_UNKNOWN == <<"u", "n", "k", "n", "o", "w", "n">>

STR_NAN == <<"N", "a", "N">>

CHAT_SESSION_PREFIX == <<"C", "h", "a", "t", " ", "S", "e", "s", "s", "i", "o", "n", " ">>

NEW_CHAT == <<"N", "e", "w", " ", "C", "h", "a", "t">>

ELLIPSIS == <<".", ".", ".">>

SOCKET_PREFIX == <<"s", "o", "c", "k", "e", "t", "_">>

CHAT_PREFIX == <<"c", "h", "a", "t", "_">>

ProfilePlain ==
  [supports_thinking |-> FALSE, thinkStart |-> EmptyStr, thinkEnd |-> EmptyStr,
   responseStart |-> EmptyStr, responseEnd |-> EmptyStr]

ProfileThink ==
  [supports_thinking |-> TRUE, thinkStart |-> THINK_START, thinkEnd |-> THINK_END,
   responseStart |-> EmptyStr, responseEnd |-> EmptyStr]

ProfileGptOss ==
  [supports_thinking |-> TRUE, thinkStart |-> GPT_ANALYSIS, thinkEnd |-> GPT_END,
   responseStart |-> GPT_RESPONSE_START, responseEnd |-> GPT_END]

PlainModelKeys ==
  { <<"1">>,
    <<"3">>,
    <<"4">>,
    <<"6">>,
    <<"9">>,
    <<"Q", "w", "e", "n", "-", "1", ".", "5", "B", "-", "Q", "u", "i", "c", "k", "C", "h", "a", "t">>,
    <<"L", "l", "a", "m", "a", "-", "3", ".", "1", "-", "8", "B", "-", "I", "n", "s", "t", "r", "u", "c", "t", "-", "U", "D">>,
    <<"p", "h", "i", "-", "4">>,
    <<"M", "i", "n", "i", "s", "t", "r", "a", "l", "-", "8", "B", "-", "I", "n", "s", "t", "r", "u", "c", "t", "-", "2", "4", "1", "0">>,
    <<"L", "l", "a", "m", "a", "-", "3", ".", "2", "-", "1", "B", "-", "I", "n", "s", "t", "r", "u", "c", "t">> }

ThinkModelKeys ==
  { <<"7">>,
    <<"8">>,
    <<"D", "e", "e", "p", "S", "e", "e", "k", "-", "R", "1", "-", "D", "i", "s", "t", "i", "l", "l", "-", "L", "l", "a", "m", "a", "-", "8", "B">>,
    <<"D", "e", "e", "p", "S", "e", "e", "k", "-", "R", "1", "-", "D", "i", "s", "t", "i", "l", "l", "-", "Q", "w", "e", "n", "-", "7", "B">>,
    <<"Q", "w", "e", "n", "3", "-", "8", "B">>,
    <<"Q", "w", "e", "n", "3", "-", "8", "B", "-", "U", "D">> }

GptOssModelKeys ==
  { <<"2">>,
    <<"g", "p", "t", "-", "o", "s", "s", "-", "2", "0", "b">> }

ModelTypeKeys == PlainModelKeys \cup ThinkModelKeys \cup GptOssModelKeys

\* MODEL_TYPES[name]; a name that is no key gives undefined, which every reader
\* treats like a profile without thinking support.
MODEL_TYPES(name) ==
  IF name \in ThinkModelKeys THEN ProfileThink
  ELSE IF name \in GptOssModelKeys THEN ProfileGptOss
  ELSE ProfilePlain

UpperCase == <<"A", "B", "C", "D", "E", "F", "G", "H", "I", "J", "K", "L", "M",
               "N", "O", "P", "Q", "R", "S", "T", "U", "V", "W", "X", "Y", "Z">>

LowerCase == <<"a", "b", "c", "d", "e", "f", "g", "h", "i", "j", "k", "l", "m",
               "n", "o", "p", "q", "r", "s", "t", "u", "v", "w", "x", "y", "z">>

LowerChar(c) ==
  IF \E i \in 1..26 : UpperCase[i] = c
  THEN LowerCase[CHOOSE i \in 1..26 : UpperCase[i] = c]
  ELSE c

ToLowerCase(s) == [i \in 1..Len(s) |-> LowerChar(s[i])]

\* modelMappings of the push-channel module, in the order Object.entries lists it:
\* the integer-like keys ascending, then the other keys as written.
ModelMappings ==
  << <<<<"1">>, <<"L", "l", "a", "m", "a", "-", "3", ".", "1", "-", "8", "B", "-", "I", "n", "s", "t", "r", "u", "c", "t", "-", "U", "D">>>>,
     <<<<"2">>, <<"g", "p", "t", "-", "o", "s", "s", "-", "2", "0", "b">>>>,
     <<<<"3">>, <<"Q", "w", "e", "n", "-", "1", ".", "5", "B", "-", "Q", "u", "i", "c", "k", "C", "h", "a", "t">>>>,
     <<<<"4">>, <<"I", "n", "t", "e", "r", "V", "L", "-", "V", "i", "s", "i", "o", "n", "-", "L", "L", "M">>>>,
     <<<<"g", "p", "t", "-", "o", "s", "s">>, <<"g", "p", "t", "-", "o", "s", "s", "-", "2", "0", "b">>>>,
     <<<<"q", "w", "e", "n">>, <<"Q", "w", "e", "n", "-", "1", ".", "5", "B", "-", "Q", "u", "i", "c", "k", "C", "h", "a", "t">>>>,
     <<<<"l", "l", "a", "m", "a">>, <<"L", "l", "a", "m", "a", "-", "3", ".", "1", "-", "8", "B", "-", "I", "n", "s", "t", "r", "u", "c", "t", "-", "U", "D">>>>,
     <<<<"V", "i", "s", "s", "i", "o", "n", "-", "L", "L", "M">>, <<"I", "n", "t", "e", "r", "V", "L", "-", "V", "i", "s", "i", "o", "n", "-", "L", "L", "M">>>> >>

\* getModelNameFromId of the push-channel module.
getModelNameFromId(modelId) ==
  IF ~Truthy(modelId) THEN STR_UNKNOWN
  ELSE IF modelId \in ModelTypeKeys THEN modelId
  ELSE LET hits == {i \in 1..Len(ModelMappings) :
                      Includes(ToLowerCase(modelId), ModelMappings[i][1])}
       IN  IF hits = {} THEN modelId ELSE ModelMappings[Min(hits)][2]

PROMPT_LIMIT == 15

WINDOW_WARN == 9

WINDOW_EVICT == 25

SESSION_LIMIT == 10

TITLE_MAX == 50

(***************************************************************************)
(* State.                                                                  *)
(***************************************************************************)
VARIABLES
  \* chat.js, module scope
  globalSessionNames,        \* the catalog: a sequence of session records, front first
  globalChatHistory,         \* transcripts: SessionKey -> sequence of messages
  sessionMessageCounts,      \* SessionKey -> number of prompts admitted over HTTP
  sessionCacheTimestamp,     \* the users that have a cache timestamp
  globalModelList,           \* the cached model list
  modelListCacheTimestamp,   \* TRUE when a timestamp is stored, FALSE for null
  foreignLastSessionIds,     \* user -> last Upstream session id, a decimal string
  sessionCounters,           \* user -> last locally minted session number
  currentUserId,             \* the logged-in user, EmptyStr for null
  thinkingContentBuffer,     \* SessionKey -> thinking text gathered by the HTTP path
  globalPersonalizedFiles,   \* user -> list of files
  \* push-channel module, module scope
  tokenBuffers,              \* SessionKey -> parser buffer
  globalActiveConsumer,      \* the tracked consumer (its number), 0 for null
  globalConsumerCount,
  globalStreamingSessions,   \* the active-stream table: SessionKey -> context
  \* one record per send-chat-message invocation (the handler's closure) and per /stop
  chats,
  stops,
  \* the Bus: the consumers subscribed on the chat queue, the messages delivered so far
  liveConsumers,
  busCount,
  \* what the process has sent: push-channel events and HTTP replies, in order
  emitted,
  lastReply,                 \* the last HTTP reply
  deletes,                   \* /deletesession requests waiting for Upstream
  \* one record per /sessionName request, and the consumers subscribed on the
  \* session-index queue
  syncs,
  sessionConsumers,
  \* one record per POST /chat request (the handler's closure and its response), and
  \* the consumers the HTTP handlers have subscribed on the chat queue
  posts,
  postConsumers,
  \* history variables of the checks
  faults,                    \* failures of the Bus client and of Upstream so far
  minted,                    \* the ids getNextSessionId returned since the last flush
  logins                     \* logins so far

chatJsVars ==
  <<globalSessionNames, globalChatHistory, sessionMessageCounts, sessionCacheTimestamp,
    globalModelList, modelListCacheTimestamp, foreignLastSessionIds, sessionCounters,
    currentUserId, thinkingContentBuffer, globalPersonalizedFiles>>

socketVars ==
  <<tokenBuffers, globalActiveConsumer, globalConsumerCount, globalStreamingSessions>>

httpVars == <<syncs, sessionConsumers, posts, postConsumers>>

runVars == <<chats, stops, liveConsumers, busCount, deletes, httpVars>>

envVars == <<faults>>

outVars == <<emitted, lastReply>>

vars == <<chatJsVars, socketVars, runVars, outVars, minted, logins, envVars>>

(***************************************************************************)
(* Session ids (chat.js 317-323, 372-387).                                 *)
(***************************************************************************)
\* String(lastSessionId) || "0"
StoredLastId(lastSessionId) ==
  IF Truthy(lastSessionId) THEN lastSessionId ELSE <<"0">>

\* setForeignLastSessionId: [foreignLastSessionIds, sessionCounters] afterwards.
setForeignLastSessionId(last, counters, userId, lastSessionId) ==
  [last |-> Put(last, userId, StoredLastId(lastSessionId)),
   counters |-> Del(counters, userId)]

\* The counter getNextSessionId starts from: the stored one when it is truthy,
\* else parseInt(foreignLastSessionIds[user] || "0").
CounterBase(last, counters, u) ==
  IF Has(counters, u) /\ counters[u] # 0 /\ counters[u] # NaN
  THEN counters[u]
  ELSE ParseInt(IF Has(last, u) /\ Truthy(last[u]) THEN last[u] ELSE <<"0">>)

\* getNextSessionId: [id, counters]; NaN + 1 is NaN and prints as "NaN".
getNextSessionId(last, counters, userId) ==
  LET finalUserId == IF Truthy(userId) THEN userId ELSE currentUserId
      base == CounterBase(last, counters, finalUserId)
      next == IF base = NaN THEN NaN ELSE base + 1
  IN  [id |-> IF next = NaN THEN STR_NAN ELSE NumToString(next),
       counters |-> Put(counters, finalUserId, next)]

(***************************************************************************)
(* Session catalog (chat.js 390-466, 1953-2039, 2042-2189).                *)
(***************************************************************************)
DEFAULT_USER == <<"d", "e", "f", "a", "u", "l", "t", "_", "u", "s", "e", "r">>

SessionRec(sid, title, uid, source, chat, total, titleSource) ==
  [session_id |-> sid, title |-> title, user_id |-> uid, source |-> source,
   current_chat_id |-> chat, total_chats |-> total, titleSource |-> titleSource]

UserSessions(names, u) ==
  LET Mine(s) == s.user_id = u IN SelectSeq(names, Mine)

\* sortedSessions[0] of the ascending sort by numeric id (the sort is stable).
OldestSession(userSessions) ==
  LET n == Len(userSessions)
      least == Min({SessionNum(userSessions[i].session_id) : i \in 1..n})
  IN  userSessions[Min({i \in 1..n : SessionNum(userSessions[i].session_id) = least})]

WithoutSession(names, u, sid) ==
  LET Keep(s) == ~(s.user_id = u /\ s.session_id = sid) IN SelectSeq(names, Keep)

\* manageSessionWindow: the state it leaves and the result it returns; deleted is
\* the evicted session in a sequence of length 0 or 1.
manageSessionWindow(names, history, counts, thinking, userId) ==
  LET finalUserId == IF Truthy(userId) THEN userId ELSE currentUserId
      userSessions == UserSessions(names, finalUserId)
      same == [names |-> names, history |-> history, counts |-> counts,
               thinking |-> thinking, deleted |-> << >>]
  IN  IF Len(userSessions) = WINDOW_WARN
      THEN same @@ [shouldNotifyUser |-> TRUE, isWarning |-> TRUE,
                    sessionCount |-> Len(userSessions) + 1]
      ELSE IF Len(userSessions) >= WINDOW_EVICT
      THEN LET oldest == OldestSession(userSessions)
               key == SessionKey(finalUserId, oldest.session_id)
           IN  [names |-> WithoutSession(names, finalUserId, oldest.session_id),
                history |-> Del(history, key),
                counts |-> Del(counts, key),
                thinking |-> IF Has(thinking, key) /\ Truthy(thinking[key])
                             THEN Del(thinking, key) ELSE thinking,
                deleted |-> <<oldest>>,
                shouldNotifyUser |-> TRUE, isWarning |-> FALSE,
                sessionCount |-> SESSION_LIMIT]
      ELSE same @@ [shouldNotifyUser |-> FALSE, isWarning |-> FALSE,
                    sessionCount |-> Len(userSessions) + 1]

\* user_id of the request body, or the logged-in user when it is missing or the default.
BodyUser(user_id) ==
  IF ~Truthy(user_id) \/ user_id = DEFAULT_USER THEN currentUserId ELSE user_id

\* POST /chatsession
ChatSession(user_id_in, title) ==
  LET user_id == BodyUser(user_id_in)
      w == manageSessionWindow(globalSessionNames, globalChatHistory,
                               sessionMessageCounts, thinkingContentBuffer, user_id)
      g == getNextSessionId(foreignLastSessionIds, sessionCounters, user_id)
      sessionTitle == IF Truthy(title) THEN title ELSE CHAT_SESSION_PREFIX \o g.id
      newSession == SessionRec(g.id, sessionTitle, user_id, "local", EmptyStr, 0, "")
  IN  /\ Len(minted) < MaxMints
      /\ globalSessionNames' = <<newSession>> \o w.names
      /\ globalChatHistory' = w.history
      /\ sessionMessageCounts' = w.counts
      /\ thinkingContentBuffer' = w.thinking
      /\ sessionCounters' = g.counters
      /\ minted' = Append(minted,
                          [user |-> IF Truthy(user_id) THEN user_id ELSE currentUserId,
                           id |-> g.id,
                           last |-> ParseInt(IF Has(foreignLastSessionIds, user_id)
                                             THEN foreignLastSessionIds[user_id]
                                             ELSE <<"0">>)])
      /\ lastReply' = [endpoint |-> "chatsession", status |-> 200, session_id |-> g.id,
                       user_id |-> user_id, session_count |-> w.sessionCount,
                       notified |-> w.shouldNotifyUser, is_warning |-> w.isWarning,
                       deleted_session |-> w.deleted]
      /\ UNCHANGED <<sessionCacheTimestamp, globalModelList, modelListCacheTimestamp,
                     foreignLastSessionIds, currentUserId, globalPersonalizedFiles,
                     socketVars, runVars, emitted, logins>>

\* DELETE /deletesession/:sessionId, up to the call to Upstream
DeleteSessionRequest(sessionId) ==
  LET user_id == currentUserId
      Found(s) == s.user_id = user_id /\ s.session_id = sessionId
  IN  /\ Truthy(sessionId)
      /\ deletes = {}
      /\ IF ~Truthy(user_id)
         THEN /\ lastReply' = [endpoint |-> "deletesession", status |-> 401]
              /\ UNCHANGED deletes
         ELSE IF Len(SelectSeq(globalSessionNames, Found)) = 0
         THEN /\ lastReply' = [endpoint |-> "deletesession", status |-> 404]
              /\ UNCHANGED deletes
         ELSE /\ deletes' = deletes \cup {[user_id |-> user_id, sessionId |-> sessionId]}
              /\ UNCHANGED lastReply
      /\ UNCHANGED <<chatJsVars, socketVars, chats, stops, liveConsumers, busCount,
                     httpVars, emitted, minted, logins>>

\* DELETE /deletesession/:sessionId, after Upstream answered, failed or timed out
DeleteSessionFinish(d) ==
  LET key == SessionKey(d.user_id, d.sessionId)
  IN  /\ d \in deletes
      /\ deletes' = deletes \ {d}
      /\ globalSessionNames' = WithoutSession(globalSessionNames, d.user_id, d.sessionId)
      /\ globalChatHistory' = Del(globalChatHistory, key)
      /\ sessionMessageCounts' = Del(sessionMessageCounts, key)
      /\ lastReply' = [endpoint |-> "deletesession", status |-> 200]
      /\ UNCHANGED <<sessionCacheTimestamp, globalModelList, modelListCacheTimestamp,
                     foreignLastSessionIds, sessionCounters, currentUserId,
                     thinkingContentBuffer, globalPersonalizedFiles, socketVars,
                     chats, stops, liveConsumers, busCount, httpVars,
                     emitted, minted, logins>>

(***************************************************************************)
(* Transcript helpers and the thinking parser of the push channel          *)
(* (part_000 47-487).                                                      *)
(***************************************************************************)
EPOCH == <<"9">>

THINKING_PREFIX == <<"t", "h", "i", "n", "k", "i", "n", "g", "_">>

Message(role, content, chatId, sessionId, userId, messageType, isComplete, tokenCount) ==
  [role |-> role, content |-> content, chat_id |-> chatId, session_id |-> sessionId,
   user_id |-> userId, message_type |-> messageType, isComplete |-> isComplete,
   token_count |-> tokenCount, total_tokens |-> 0,
   thinkingContent |-> EmptyStr, hasThinking |-> FALSE, completion_timestamp |-> 0]

HistoryOf(history, key) == IF Has(history, key) THEN history[key] ELSE << >>

generateSessionTitle(firstMessage) ==
  LET trimmed == Trim(firstMessage)
  IN  IF ~Truthy(firstMessage) \/ ~Truthy(trimmed) THEN NEW_CHAT
      ELSE IF Len(trimmed) > TITLE_MAX
      THEN Trim(Substring(trimmed, 0, TITLE_MAX)) \o ELLIPSIS
      ELSE trimmed

\* removeIncompleteChatFromHistory with the bug that the complete messages of the
\* chat are removed as well.
removeWholeChatFromHistory(history, userId, sessionId, chatId) ==
  LET historyKey == SessionKey(userId, sessionId)
      Keep(msg) == msg.chat_id # chatId
  IN  IF ~Has(history, historyKey) THEN history
      ELSE [history EXCEPT ![historyKey] = SelectSeq(@, Keep)]

\* part_000 58-84: the messages of the chat that are not complete leave the
\* transcript of the session.
removeIncompleteChatFromHistory(history, userId, sessionId, chatId) ==
  LET historyKey == SessionKey(userId, sessionId)
      Keep(msg) == ~(msg.chat_id = chatId /\ ~msg.isComplete)
  IN  IF ~Has(history, historyKey) THEN history
      ELSE [history EXCEPT ![historyKey] = SelectSeq(@, Keep)]

cleanupTokenBuffer(buffers, sessionKey) == Del(buffers, sessionKey)

NewTokenBuffer(modelId) ==
  [tokens |-> << >>, fullContent |-> EmptyStr, model |-> getModelNameFromId(modelId),
   thinkingContent |-> EmptyStr, isInThinking |-> FALSE, hasThinkingStarted |-> FALSE,
   isInResponseTags |-> FALSE, hasResponseStarted |-> FALSE,
   pendingThinkingTokens |-> << >>, thinkingMessageId |-> EmptyStr]

ParserEvent(type, content, chatId, sessionId, pending) ==
  [type |-> type, content |-> content, chat_id |-> chatId, session_id |-> sessionId,
   isPendingThinking |-> pending, pendingTokens |-> << >>]

ParserOut(buffer, history, events, result) ==
  [buffer |-> buffer, history |-> history, events |-> events, result |-> result]

OrEmpty(s) == IF Truthy(Trim(s)) THEN s ELSE EmptyStr

\* The thinking start tag is in the buffer for the first time (part_000 167-220).
ThinkingStartBranch(buffer, cfg, sessionKey, chatId, sessionId, history) ==
  LET full == buffer.fullContent
      startIndex == IndexOf(full, cfg.thinkStart)
      endIndex == IndexOfFrom(full, cfg.thinkEnd, startIndex)
      inner == Trim(Substring(full, startIndex + Len(cfg.thinkStart), endIndex))
      beforeThinking == Substring(full, 0, startIndex)
      cleanContent == beforeThinking \o SubstringFrom(full, endIndex + Len(cfg.thinkEnd))
  IN  IF Truthy(cfg.thinkEnd) /\ Includes(full, cfg.thinkEnd) /\ ~Truthy(inner)
      THEN ParserOut(buffer, history, << >>, OrEmpty(cleanContent))
      ELSE ParserOut(
             [buffer EXCEPT !.isInThinking = TRUE, !.hasThinkingStarted = TRUE,
                            !.thinkingMessageId =
                                THINKING_PREFIX \o sessionKey \o UNDERSCORE \o EPOCH,
                            !.thinkingContent =
                                SubstringFrom(full, startIndex + Len(cfg.thinkStart))],
             history,
             IF Truthy(Trim(beforeThinking))
             THEN <<ParserEvent("stream", beforeThinking, chatId, sessionId, FALSE)>>
             ELSE << >>,
             EmptyStr)

\* The thinking text is stored on the open assistant message or on a new one
\* (part_000 295-326).
StoreThinking(history, sessionKey, thinkingOnly, chatId, sessionId) ==
  LET h == HistoryOf(history, sessionKey)
      userId == Substring(sessionKey, 0, IF Includes(sessionKey, UNDERSCORE)
                                         THEN IndexOf(sessionKey, UNDERSCORE)
                                         ELSE Len(sessionKey))
      openLast == Len(h) > 0 /\ h[Len(h)].role = "assistant" /\ ~h[Len(h)].isComplete
      fresh == [Message("assistant", EmptyStr, chatId, sessionId, userId,
                        "assistant_with_thinking", FALSE, 0)
                  EXCEPT !.thinkingContent = thinkingOnly, !.hasThinking = TRUE]
  IN  Put(history, sessionKey,
          IF openLast
          THEN [h EXCEPT ![Len(h)].thinkingContent = thinkingOnly,
                         ![Len(h)].hasThinking = TRUE]
          ELSE Append(h, fresh))

\* part_000 268-399: the end of the thinking text was found at endIndex of the
\* accumulated text; closed is the buffer after lines 331-334.
ThinkingClosed(closed, cfg, isGptOss, thinkingOnly, afterThinking, ev1, sessionKey, chatId, sessionId, history, pendingTokens) ==
  LET ev2 == IF Truthy(thinkingOnly)
             THEN ev1 \o <<[ParserEvent("move_to_thinking", thinkingOnly, chatId, sessionId, FALSE)
                              EXCEPT !.pendingTokens = pendingTokens],
                           ParserEvent("thinking_complete", EmptyStr, chatId, sessionId, FALSE)>>
             ELSE ev1
      history2 == IF Truthy(thinkingOnly)
                  THEN StoreThinking(history, sessionKey, thinkingOnly, chatId, sessionId)
                  ELSE history
      inResponse == [closed EXCEPT !.isInResponseTags = TRUE, !.hasResponseStarted = TRUE]
      responseStartIndex == IndexOf(afterThinking, cfg.responseStart)
  IN  IF ~isGptOss /\ Truthy(cfg.responseStart) /\ Includes(afterThinking, cfg.responseStart)
      THEN IF Truthy(Trim(Substring(afterThinking, 0, responseStartIndex)))
           THEN ParserOut(closed, history2, ev2, Substring(afterThinking, 0, responseStartIndex))
           ELSE ParserOut(inResponse, history2, ev2,
                          OrEmpty(SubstringFrom(afterThinking,
                                                responseStartIndex + Len(cfg.responseStart))))
      ELSE IF isGptOss
      THEN ParserOut(inResponse, history2, ev2, OrEmpty(afterThinking))
      ELSE ParserOut(closed, history2, ev2, OrEmpty(afterThinking))

\* part_000 245-266: b is the buffer after the token was accumulated, ev1 the event
\* that showed the token in the main lane.
ThinkingEndScan(b, cfg, isGptOss, ev1, sessionKey, chatId, sessionId, history) ==
  LET tc == b.thinkingContent
      gptHit == isGptOss /\ Includes(tc, GPT_RESPONSE_SIGNAL)
      stdHit == ~isGptOss /\ Truthy(cfg.thinkEnd) /\ Includes(tc, cfg.thinkEnd)
      endTag == IF isGptOss THEN GPT_RESPONSE_SIGNAL ELSE cfg.thinkEnd
  IN  IF ~(gptHit \/ stdHit)
      THEN ParserOut(b, history, ev1, EmptyStr)
      ELSE ThinkingClosed([b EXCEPT !.isInThinking = FALSE, !.pendingThinkingTokens = << >>,
                                    !.thinkingMessageId = EmptyStr],
                          cfg, isGptOss,
                          Trim(Substring(tc, 0, IndexOf(tc, endTag))),
                          SubstringFrom(tc, IndexOf(tc, endTag) + Len(endTag)),
                          ev1, sessionKey, chatId, sessionId, history,
                          b.pendingThinkingTokens)

\* InThinkingBranch with the bug that a thinking token is tracked but not shown in
\* the main lane.
InThinkingBranchSilent(buffer, cfg, token, sessionKey, chatId, sessionId, history) ==
  LET shown == Truthy(Trim(token)) /\ token # cfg.thinkStart /\ token # cfg.thinkEnd
  IN  ThinkingEndScan(
        [buffer EXCEPT !.thinkingContent = @ \o token,
                       !.pendingThinkingTokens = IF shown THEN Append(@, token) ELSE @],
        cfg,
        buffer.model = GPT_OSS_NAME \/ buffer.model = STR_3,
        << >>,
        sessionKey, chatId, sessionId, history)

\* A token while the buffer is in thinking mode (part_000 223-403).
InThinkingBranch(buffer, cfg, token, sessionKey, chatId, sessionId, history) ==
  LET shown == Truthy(Trim(token)) /\ token # cfg.thinkStart /\ token # cfg.thinkEnd
  IN  ThinkingEndScan(
        [buffer EXCEPT !.thinkingContent = @ \o token,
                       !.pendingThinkingTokens = IF shown THEN Append(@, token) ELSE @],
        cfg,
        buffer.model = GPT_OSS_NAME \/ buffer.model = STR_3,
        IF shown THEN <<ParserEvent("stream", token, chatId, sessionId, TRUE)>> ELSE << >>,
        sessionKey, chatId, sessionId, history)

\* The response start tag is in the buffer for the first time (part_000 406-434).
ResponseStartBranch(buffer, cfg, chatId, sessionId, history) ==
  LET full == buffer.fullContent
      responseStartIndex == IndexOf(full, cfg.responseStart)
      beforeResponse == Substring(full, 0, responseStartIndex)
      afterResponseStart == SubstringFrom(full, responseStartIndex + Len(cfg.responseStart))
  IN  ParserOut([buffer EXCEPT !.isInResponseTags = TRUE, !.hasResponseStarted = TRUE],
                history,
                IF Truthy(Trim(beforeResponse))
                THEN <<ParserEvent("stream", beforeResponse, chatId, sessionId, FALSE)>>
                ELSE << >>,
                OrEmpty(afterResponseStart))

\* The response end tag is in the buffer while in response tags (part_000 437-467).
ResponseEndBranch(buffer, cfg, history) ==
  LET full == buffer.fullContent
      responseEndIndex == IndexOf(full, cfg.responseEnd)
      responseContent == Substring(full, 0, responseEndIndex)
      responseStartIndex == IndexOf(responseContent, cfg.responseStart)
      pureResponseContent ==
        IF responseStartIndex >= 0
        THEN Trim(SubstringFrom(responseContent, responseStartIndex + Len(cfg.responseStart)))
        ELSE Trim(responseContent)
      afterResponse == SubstringFrom(full, responseEndIndex + Len(cfg.responseEnd))
  IN  ParserOut([buffer EXCEPT !.isInResponseTags = FALSE], history, << >>,
                IF Truthy(pureResponseContent) THEN pureResponseContent
                ELSE OrEmpty(afterResponse))

\* part_000 93-129: the buffer of the session, reset when the model changed, with
\* the token appended.
TokenIntoBuffer(b0, currentModel, token) ==
  [(IF b0.model # currentModel
    THEN [b0 EXCEPT !.model = currentModel, !.isInThinking = FALSE,
                    !.hasThinkingStarted = FALSE, !.isInResponseTags = FALSE,
                    !.hasResponseStarted = FALSE, !.thinkingContent = EmptyStr,
                    !.pendingThinkingTokens = << >>, !.thinkingMessageId = EmptyStr]
    ELSE b0)
     EXCEPT !.tokens = Append(@, token), !.fullContent = @ \o token]

\* part_000 155-478: the branches of the parser on the buffer that holds the token
ParserBranches(buffer, cfg, token, sessionKey, chatId, sessionId, history) ==
  IF ~cfg.supports_thinking
  THEN ParserOut(buffer, history, << >>, token)
  ELSE IF Truthy(cfg.thinkStart) /\ Includes(buffer.fullContent, cfg.thinkStart)
          /\ ~buffer.hasThinkingStarted
  THEN ThinkingStartBranch(buffer, cfg, sessionKey, chatId, sessionId, history)
  ELSE IF buffer.isInThinking
  THEN InThinkingBranch(buffer, cfg, token, sessionKey, chatId, sessionId, history)
  ELSE IF Truthy(cfg.responseStart) /\ ~buffer.hasResponseStarted
          /\ Includes(buffer.fullContent, cfg.responseStart)
  THEN ResponseStartBranch(buffer, cfg, chatId, sessionId, history)
  ELSE IF buffer.isInResponseTags /\ Truthy(cfg.responseEnd)
          /\ Includes(buffer.fullContent, cfg.responseEnd)
  THEN ResponseEndBranch(buffer, cfg, history)
  ELSE ParserOut(buffer, history, << >>, token)

ParserOnBuffer(buffer, token, sessionKey, chatId, sessionId, history) ==
  ParserBranches(buffer, MODEL_TYPES(buffer.model), token, sessionKey, chatId, sessionId,
                 history)

ParserResult(buffers, sessionKey, out) ==
  [buffers |-> Put(buffers, sessionKey, out.buffer), history |-> out.history,
   events |-> out.events, result |-> out.result]

\* processTokenStreamThinking for a non-empty string token: the buffers and the
\* transcripts it leaves, the events it emits to the room, and the text it returns.
processTokenStreamThinking(token, sessionKey, modelId, chatId, sessionId, buffers, history) ==
  ParserResult(buffers, sessionKey,
               ParserOnBuffer(TokenIntoBuffer(IF Has(buffers, sessionKey)
                                              THEN buffers[sessionKey]
                                              ELSE NewTokenBuffer(modelId),
                                              getModelNameFromId(modelId), token),
                              token, sessionKey, chatId, sessionId, history))

(***************************************************************************)
(* Login and logout (auth.js 255-281, 392-393; chat.js 2278-2385).         *)
(***************************************************************************)
\* POST /login after Upstream accepted the credentials; session_id is the number
\* Upstream reports as its last session id.
Login(userId, session_id, files) ==
  LET foreignLastSessionId == NumToString(session_id)
      r == setForeignLastSessionId(foreignLastSessionIds, sessionCounters,
                                   userId, foreignLastSessionId)
  IN  /\ logins' = logins + 1
      /\ currentUserId' = userId
      /\ globalPersonalizedFiles' = Put(globalPersonalizedFiles, userId, files)
      /\ foreignLastSessionIds' = r.last
      /\ sessionCounters' = r.counters
      /\ lastReply' = [endpoint |-> "login", status |-> 200]
      /\ UNCHANGED <<globalSessionNames, globalChatHistory, sessionMessageCounts,
                     sessionCacheTimestamp, globalModelList, modelListCacheTimestamp,
                     thinkingContentBuffer, socketVars, runVars, emitted, minted>>

\* flushAllGlobalVariables, called by POST /logout
flushAllGlobalVariables ==
  /\ globalSessionNames' = << >>
  /\ globalChatHistory' = EmptyMap
  /\ sessionMessageCounts' = EmptyMap
  /\ sessionCacheTimestamp' = {}
  /\ foreignLastSessionIds' = EmptyMap
  /\ sessionCounters' = EmptyMap
  /\ currentUserId' = EmptyStr
  /\ thinkingContentBuffer' = EmptyMap
  /\ globalModelList' = << >>
  /\ modelListCacheTimestamp' = FALSE
  /\ globalPersonalizedFiles' = EmptyMap
  /\ minted' = << >>
  /\ lastReply' = [endpoint |-> "logout", status |-> 200]
  /\ UNCHANGED <<socketVars, runVars, emitted, logins>>

(***************************************************************************)
(* Initial state: the module-scope initialisers.                           *)
(***************************************************************************)
\* A send-chat-message invocation that has not happened yet: the closure variables
\* with their initialisers (part_000 679-682) and the handler's position.
\* recentMessage is no variable of the code: it records that a Bus message of the
\* chat was processed less than the idle window ago. replySessionName is none
\* either: it records the SESSION_NAME in the body of Upstream's reply to the chat
\* request, a body the handler never reads (part_000 1064-1065).
NoChat ==
  [pc |-> "idle", user |-> EmptyStr, session |-> EmptyStr, chat |-> EmptyStr,
   instance |-> EmptyStr, model |-> EmptyStr, prompt |-> EmptyStr, room |-> EmptyStr,
   sock |-> EmptyStr, rabbitConsumer |-> 0, isStreamingComplete |-> FALSE,
   messageCount |-> 0, completionTimeout |-> FALSE, subscribe |-> "none",
   successTimer |-> FALSE, cleanupTimers |-> 0, target |-> 0, recentMessage |-> FALSE,
   replySessionName |-> EmptyStr]

\* A /stop request that has not happened yet.
NoStop ==
  [pc |-> "idle", user |-> EmptyStr, session |-> EmptyStr, chat |-> EmptyStr,
   instance |-> EmptyStr, path |-> "none", target |-> 0]

\* A POST /chat request that has not happened yet: the closure variables of the
\* handler (chat.js 596-597, 817-819, 1037) and its response (res).
NoPost ==
  [pc |-> "idle", user |-> EmptyStr, session |-> EmptyStr, chat |-> EmptyStr,
   model |-> EmptyStr, rabbitConsumer |-> 0, isStreamingComplete |-> FALSE,
   subscribe |-> "none", drainSubscribe |-> "none", ok |-> FALSE, complete |-> FALSE,
   SESSION_NAME |-> EmptyStr, testTimer |-> FALSE, queueCheckTimeout |-> FALSE,
   checkTimer |-> FALSE, completionTimer |-> FALSE, drainTimers |-> FALSE,
   messagesProcessed |-> 0, completionReceived |-> FALSE, resolved |-> FALSE,
   queueDrained |-> FALSE, headersSent |-> FALSE, ended |-> FALSE, written |-> << >>,
   replayed |-> << >>]

\* A /sessionName request that has not happened yet: the closure variables of the
\* handler, the timer and the promise of the session data, the handler's position.
NoSync ==
  [pc |-> "idle", user |-> EmptyStr, rabbitConsumer |-> 0, isStreamingComplete |-> FALSE,
   subscribe |-> "none", timeout |-> FALSE, promise |-> "none", data |-> << >>,
   consumed |-> << >>, localOnly |-> FALSE, cached |-> << >>]

Init ==
  /\ globalSessionNames = << >>
  /\ globalChatHistory = EmptyMap
  /\ sessionMessageCounts = EmptyMap
  /\ sessionCacheTimestamp = {}
  /\ globalModelList = << >>
  /\ modelListCacheTimestamp = FALSE
  /\ foreignLastSessionIds = EmptyMap
  /\ sessionCounters = EmptyMap
  /\ currentUserId = EmptyStr
  /\ thinkingContentBuffer = EmptyMap
  /\ globalPersonalizedFiles = EmptyMap
  /\ tokenBuffers = EmptyMap
  /\ globalActiveConsumer = 0
  /\ globalConsumerCount = 0
  /\ globalStreamingSessions = EmptyMap
  /\ chats = [i \in 1..MaxInv |-> NoChat]
  /\ stops = [j \in 1..MaxStops |-> NoStop]
  /\ liveConsumers = {}
  /\ busCount = 0
  /\ deletes = {}
  /\ syncs = [j \in 1..MaxSyncs |-> NoSync]
  /\ sessionConsumers = {}
  /\ posts = [r \in 1..MaxPosts |-> NoPost]
  /\ postConsumers = {}
  /\ emitted = << >>
  /\ lastReply = [endpoint |-> "none", status |-> 0]
  /\ minted = << >>
  /\ logins = 0
  /\ faults = 0

(***************************************************************************)
(* The Bus client (rabbitmq.js).  A consumer is known by the number of the  *)
(* send-chat-message invocation that subscribed it; liveConsumers is the   *)
(* set of consumers the broker still delivers to.                          *)
(***************************************************************************)
\* consumer.consumerTag: socket_{conn}_{sessionId}_{chatId}_{epoch}
ConsumerTag(c) ==
  SOCKET_PREFIX \o chats[c].sock \o UNDERSCORE \o chats[c].session \o UNDERSCORE
    \o chats[c].chat \o UNDERSCORE \o EPOCH

\* cancelConsumer(c) returning normally: the broker stops delivering to c.
cancelConsumer(live, c) == live \ {c}

(***************************************************************************)
(* Events sent to the clients: room is the room (or the socket) addressed, *)
(* origin the chat the Bus message behind the event was produced for.      *)
(***************************************************************************)
Event(room, type, content, chatId, sessionId, completionType, origin) ==
  [room |-> room, type |-> type, content |-> content, chat_id |-> chatId,
   session_id |-> sessionId, completion_type |-> completionType, origin |-> origin,
   isPendingThinking |-> FALSE, pendingTokens |-> << >>]

\* The event the parser sends to the room (part_000 206-212, 234-242, 276-292).
ParserEmit(room, e, chatId, sessionId, origin) ==
  [Event(room, e.type, e.content, chatId, sessionId, "", origin)
     EXCEPT !.isPendingThinking = e.isPendingThinking, !.pendingTokens = e.pendingTokens]

\* chat_{userId}_{sessionId}_{chatId}[_{instanceId}], the room of a chat
RoomId(userId, sessionId, chatId, instanceId) ==
  IF Truthy(instanceId)
  THEN CHAT_PREFIX \o userId \o UNDERSCORE \o sessionId \o UNDERSCORE \o chatId
         \o UNDERSCORE \o instanceId
  ELSE IF Truthy(chatId)
  THEN CHAT_PREFIX \o userId \o UNDERSCORE \o sessionId \o UNDERSCORE \o chatId
  ELSE CHAT_PREFIX \o userId \o UNDERSCORE \o sessionId

(***************************************************************************)
(* send-chat-message (part_000 570-1212).                                  *)
(***************************************************************************)
STR_1 == <<"1">>

TITLE_A == <<"A">>

StreamContext(c) ==
  [modelId |-> c.model, chatId |-> c.chat, instanceId |-> c.instance,
   sessionId |-> c.session, userId |-> c.user]

\* part_000 718-732: after forceCleanupAllConsumers, up to the call of ensureConnection
AfterForceCleanup(c) ==
  /\ globalConsumerCount' = globalConsumerCount + 1
  /\ globalStreamingSessions' = Put(EmptyMap, SessionKey(c.user, c.session), StreamContext(c))

\* The handler from its start to its first suspension (part_000 570-717).
SendChatMessage(i, data) ==
  LET user_id == IF Truthy(data.userId) THEN data.userId ELSE currentUserId
      finalSessionId == IF Truthy(data.session_id) THEN data.session_id ELSE STR_1
      finalChatId == IF Truthy(data.chat_id) THEN data.chat_id ELSE STR_1
      sessionKey == SessionKey(user_id, finalSessionId)
      c == [NoChat EXCEPT !.user = user_id, !.session = finalSessionId,
                          !.chat = finalChatId, !.instance = data.instance_id,
                          !.model = data.llm_model_id, !.prompt = data.prompt,
                          !.room = data.roomId, !.sock = data.sock]
  IN  /\ chats[i].pc = "idle"
      /\ \A k \in 1..(i - 1) : chats[k].pc # "idle"
      /\ IF ~Truthy(user_id)
         THEN /\ chats' = [chats EXCEPT ![i] = [c EXCEPT !.pc = "done"]]
              /\ emitted' = Append(emitted,
                                   Event(data.sock, "error", EmptyStr, EmptyStr, EmptyStr,
                                         "", EmptyStr))
              /\ UNCHANGED <<globalChatHistory, socketVars>>
         ELSE /\ tokenBuffers' = Put(tokenBuffers, sessionKey, NewTokenBuffer(data.llm_model_id))
              /\ globalChatHistory' =
                   Put(globalChatHistory, sessionKey,
                       Append(HistoryOf(globalChatHistory, sessionKey),
                              Message("user", data.prompt, finalChatId, finalSessionId,
                                      user_id, "user_prompt", FALSE, 0)))
              /\ IF globalActiveConsumer # 0
                 THEN /\ chats' = [chats EXCEPT
                                     ![i] = [c EXCEPT !.pc = "cancelPrior",
                                                      !.target = globalActiveConsumer]]
                      /\ UNCHANGED <<globalActiveConsumer, globalConsumerCount,
                                     globalStreamingSessions>>
                 ELSE /\ chats' = [chats EXCEPT ![i] = [c EXCEPT !.pc = "ensure"]]
                      /\ AfterForceCleanup(c)
                      /\ UNCHANGED globalActiveConsumer
              /\ UNCHANGED emitted
      /\ UNCHANGED <<globalSessionNames, sessionMessageCounts, sessionCacheTimestamp,
                     globalModelList, modelListCacheTimestamp, foreignLastSessionIds,
                     sessionCounters, currentUserId, thinkingContentBuffer,
                     globalPersonalizedFiles, stops, liveConsumers, busCount, deletes, httpVars,
                     lastReply, minted, logins>>

\* forceCleanupAllConsumers resumes after cancelConsumer returned (ok) or threw
\* (part_000 500-509), and the handler runs on to ensureConnection (718-732).
CancelPriorReturn(i, ok) ==
  /\ chats[i].pc = "cancelPrior"
  /\ IF ok
     THEN /\ liveConsumers' = cancelConsumer(liveConsumers, chats[i].target)
          /\ globalActiveConsumer' = 0
     ELSE UNCHANGED <<liveConsumers, globalActiveConsumer>>
  /\ AfterForceCleanup(chats[i])
  /\ chats' = [chats EXCEPT ![i].pc = "ensure", ![i].target = 0]
  /\ UNCHANGED <<chatJsVars, tokenBuffers, stops, busCount, deletes, httpVars, outVars, minted, logins>>

\* ensureConnection returned (part_000 732-740, 1040-1062): without a connection the
\* handler throws into its catch, which only logs; with one it calls consumeQueue
\* and sends the chat request to Upstream.
EnsureConnectionReturn(i, connected) ==
  /\ chats[i].pc = "ensure"
  /\ chats' = [chats EXCEPT ![i].pc = IF connected THEN "fetch" ELSE "done",
                            ![i].subscribe = IF connected THEN "pending" ELSE "none"]
  /\ UNCHANGED <<chatJsVars, socketVars, stops, liveConsumers, busCount, deletes, httpVars,
                 outVars, minted, logins>>

\* consumeQueue's promise resolves: the broker delivers to the consumer from now on
\* and the .then callback records it (part_000 1040-1043).
ConsumeQueueResolve(i) ==
  /\ chats[i].subscribe = "pending"
  /\ liveConsumers' = liveConsumers \cup {i}
  /\ globalActiveConsumer' = i
  /\ chats' = [chats EXCEPT ![i].subscribe = "resolved", ![i].rabbitConsumer = i]
  /\ UNCHANGED <<chatJsVars, tokenBuffers, globalConsumerCount, globalStreamingSessions,
                 stops, busCount, deletes, httpVars, outVars, minted, logins>>

\* consumeQueue's promise rejects: the .catch callback only logs (part_000 1044-1046).
ConsumeQueueReject(i) ==
  /\ chats[i].subscribe = "pending"
  /\ chats' = [chats EXCEPT ![i].subscribe = "rejected"]
  /\ UNCHANGED <<chatJsVars, socketVars, stops, liveConsumers, busCount, deletes, httpVars,
                 outVars, minted, logins>>

(***************************************************************************)
(* Bus messages: the fields the consumer callback reads; an absent field   *)
(* is EmptyStr.  origin is the chat_id of the chat Upstream produced the   *)
(* message for, whether or not the message carries a chat_id field.        *)
(***************************************************************************)
TYPE_TOKEN == <<"t", "o", "k", "e", "n">>

TYPE_STATUS == <<"s", "t", "a", "t", "u", "s">>

TYPE_COMPLETION == <<"c", "o", "m", "p", "l", "e", "t", "i", "o", "n">>

STR_DONE == <<"d", "o", "n", "e">>

BusMessage(type, token, status, data, content, chatId, origin) ==
  [type |-> type, token |-> token, status |-> status, data |-> data,
   content |-> content, chat_id |-> chatId, origin |-> origin]

QUOTE == <<"\"">>

JsonField(name, value) ==
  IF Truthy(value) THEN <<QUOTE \o name \o QUOTE \o <<":">> \o QUOTE \o value \o QUOTE>>
  ELSE << >>

RECURSIVE JoinComma(_)
JoinComma(parts) ==
  IF Len(parts) = 0 THEN EmptyStr
  ELSE IF Len(parts) = 1 THEN parts[1]
  ELSE parts[1] \o <<",">> \o JoinComma(Tail(parts))

\* JSON.stringify(message) of a message whose fields are strings
JsonStringify(m) ==
  <<"{">> \o JoinComma(JsonField(<<"t", "y", "p", "e">>, m.type) \o JsonField(<<"t", "o", "k", "e", "n">>, m.token)
                       \o JsonField(<<"s", "t", "a", "t", "u", "s">>, m.status) \o JsonField(<<"d", "a", "t", "a">>, m.data)
                       \o JsonField(<<"c", "o", "n", "t", "e", "n", "t">>, m.content)
                       \o JsonField(<<"c", "h", "a", "t", "_", "i", "d">>, m.chat_id)) \o <<"}">>

\* part_000 896-917: message.response and message.message are absent from the
\* messages modelled.
ExtractContent(m) ==
  IF m.type = TYPE_TOKEN /\ Truthy(m.data) THEN m.data
  ELSE IF Truthy(m.data) THEN m.data
  ELSE IF Truthy(m.content) THEN m.content
  ELSE JsonStringify(m)

\* part_000 847-870: the last message, if the assistant's, and the latest open user
\* message of the chat are marked complete.
MarkComplete(history, historyKey, chatId, now) ==
  LET h == HistoryOf(history, historyKey)
      n == Len(h)
      h1 == IF h[n].role = "assistant"
            THEN [h EXCEPT ![n].isComplete = TRUE, ![n].message_type = "complete_response",
                           ![n].completion_timestamp = now,
                           ![n].total_tokens = IF h[n].token_count = 0 THEN 1
                                               ELSE h[n].token_count]
            ELSE h
      open == {k \in 1..n : h1[k].role = "user" /\ h1[k].chat_id = chatId
                            /\ ~h1[k].isComplete}
  IN  IF n = 0 THEN history
      ELSE Put(history, historyKey,
               IF open = {} THEN h1 ELSE [h1 EXCEPT ![Max(open)].isComplete = TRUE])

\* part_000 925-954: the text is appended to the open assistant message or starts one.
StoreContent(history, historyKey, m, responseContent, c) ==
  LET h == HistoryOf(history, historyKey)
      n == Len(h)
      isTokenMessage == m.type = TYPE_TOKEN
  IN  Put(history, historyKey,
          IF n > 0 /\ h[n].role = "assistant" /\ ~h[n].isComplete
          THEN [h EXCEPT ![n].content = @ \o responseContent,
                         ![n].token_count = @ + 1,
                         ![n].message_type = IF isTokenMessage THEN "streaming_tokens" ELSE @]
          ELSE Append(h, Message("assistant", responseContent, c.chat, c.session, c.user,
                                 IF isTokenMessage THEN "streaming_tokens"
                                 ELSE "streaming_content", FALSE, 1)))

\* part_000 958-983: the catalog entry of the session is created from the user's
\* prompt, or its current chat is updated.
CatalogFromStream(names, history, historyKey, c) ==
  LET hits == {k \in 1..Len(names) :
                 names[k].session_id = c.session /\ names[k].user_id = c.user}
      h == HistoryOf(history, historyKey)
      mine == {k \in 1..Len(h) : h[k].role = "user" /\ h[k].chat_id = c.chat}
      userPrompt == IF mine # {} /\ Truthy(h[Min(mine)].content)
                    THEN h[Min(mine)].content ELSE c.prompt
  IN  IF hits = {}
      THEN <<SessionRec(c.session, generateSessionTitle(userPrompt), c.user, "",
                        c.chat, 1, "")>> \o names
      ELSE [names EXCEPT ![Min(hits)].current_chat_id = c.chat]

\* cleanupConsumer (part_000 687-710) called by invocation i whose closure is c
cleanupConsumer(i, c) ==
  LET sessionKey == SessionKey(c.user, c.session)
  IN  IF c.rabbitConsumer # 0 /\ ~c.isStreamingComplete
      THEN \E ok \in BOOLEAN :
             /\ liveConsumers' = IF ok THEN cancelConsumer(liveConsumers, c.rabbitConsumer)
                                 ELSE liveConsumers
             /\ chats' = [chats EXCEPT ![i] = [c EXCEPT !.completionTimeout = FALSE,
                                                        !.rabbitConsumer = 0,
                                                        !.isStreamingComplete = TRUE]]
             /\ globalActiveConsumer' = 0
             /\ globalStreamingSessions' = Del(globalStreamingSessions, sessionKey)
             /\ tokenBuffers' = cleanupTokenBuffer(tokenBuffers, sessionKey)
      ELSE /\ chats' = [chats EXCEPT ![i] = c]
           /\ UNCHANGED <<liveConsumers, globalActiveConsumer, globalStreamingSessions,
                          tokenBuffers>>

\* The chat request was sent to Upstream: Upstream produces Bus messages only for
\* chats it was asked about.
Requested(chatId) ==
  \E k \in 1..MaxInv : chats[k].chat = chatId /\ chats[k].subscribe # "none"

\* part_000 956-1035: after the text was stored in the transcript (history1) and
\* parsed (p), the catalog, buffers and transcript are written, the events sent and
\* the safety timer armed.
ContentParsed(i, m, responseContent, history1, p) ==
  LET c == chats[i]
  IN  /\ chats' = [chats EXCEPT ![i].messageCount = @ + 1, ![i].completionTimeout = TRUE,
                                ![i].recentMessage = TRUE]
      /\ globalChatHistory' = p.history
      /\ globalSessionNames' =
           IF c.messageCount + 1 <= 3 /\ Len(Trim(responseContent)) > 2
           THEN CatalogFromStream(globalSessionNames, history1,
                                  SessionKey(c.user, c.session), c)
           ELSE globalSessionNames
      /\ tokenBuffers' = p.buffers
      /\ emitted' = emitted
                      \o [k \in 1..Len(p.events) |->
                            ParserEmit(c.room, p.events[k], c.chat, c.session, m.origin)]
                      \o (IF Truthy(Trim(p.result))
                          THEN <<Event(c.room, "stream", p.result, c.chat, c.session, "",
                                       m.origin)>>
                          ELSE << >>)

\* sessionContext?.modelId || 'unknown'
StreamModelId(sessionKey) ==
  IF Has(globalStreamingSessions, sessionKey)
     /\ Truthy(globalStreamingSessions[sessionKey].modelId)
  THEN globalStreamingSessions[sessionKey].modelId ELSE STR_UNKNOWN

ContentStored(i, m, responseContent, history1) ==
  ContentParsed(i, m, responseContent, history1,
                processTokenStreamThinking(responseContent,
                                           SessionKey(chats[i].user, chats[i].session),
                                           StreamModelId(SessionKey(chats[i].user,
                                                                    chats[i].session)),
                                           chats[i].chat, chats[i].session,
                                           tokenBuffers, history1))

\* part_000 896-1035: a message that is no completion signal
ContentBranch(i, m, responseContent) ==
  ContentStored(i, m, responseContent,
                StoreContent(globalChatHistory, SessionKey(chats[i].user, chats[i].session),
                             m, responseContent, chats[i]))

\* part_000 827-894: a completion signal.  The time of the marking is the number of
\* the delivery.
CompletionBranch(i, m) ==
  LET c == chats[i]
  IN  /\ chats' = [chats EXCEPT ![i].messageCount = @ + 1, ![i].completionTimeout = FALSE,
                                ![i].isStreamingComplete = TRUE, ![i].cleanupTimers = @ + 1]
      /\ globalChatHistory' = MarkComplete(globalChatHistory, SessionKey(c.user, c.session),
                                           c.chat, busCount + 1)
      /\ emitted' = Append(emitted,
                           Event(c.room, "complete", EmptyStr, c.chat, c.session,
                                 IF m.type = TYPE_STATUS THEN "status" ELSE "completion",
                                 m.origin))
      /\ UNCHANGED <<globalSessionNames, tokenBuffers>>

\* The consumer callback of invocation i runs on Bus message m (part_000 740-1039).
BusDeliver(i, m) ==
  /\ i \in liveConsumers
  /\ Requested(m.origin)
  /\ busCount < MaxBus
  /\ busCount' = busCount + 1
  /\ IF chats[i].isStreamingComplete
     THEN UNCHANGED <<chats, globalChatHistory, globalSessionNames, tokenBuffers, emitted>>
     ELSE IF Truthy(m.chat_id) /\ m.chat_id # chats[i].chat
     THEN /\ chats' = [chats EXCEPT ![i].messageCount = @ + 1]
          /\ UNCHANGED <<globalChatHistory, globalSessionNames, tokenBuffers, emitted>>
     ELSE IF \/ (m.type = TYPE_STATUS /\ m.token = STR_DONE)
             \/ (m.type = TYPE_COMPLETION /\ m.status = STR_DONE)
     THEN CompletionBranch(i, m)
     ELSE ContentBranch(i, m, ExtractContent(m))
  /\ UNCHANGED <<sessionMessageCounts, sessionCacheTimestamp, globalModelList,
                 modelListCacheTimestamp, foreignLastSessionIds, sessionCounters,
                 currentUserId, thinkingContentBuffer, globalPersonalizedFiles,
                 globalActiveConsumer, globalConsumerCount, globalStreamingSessions,
                 stops, liveConsumers, deletes, httpVars, lastReply, minted, logins>>

\* part_000 985-1012 on its own: the parser is called on a token of the chat
\* (user, session 1, chat 1) of a model with thinking tags, and the text it returns
\* is streamed to the room.
StreamToken(token, userId, modelId) ==
  LET p == processTokenStreamThinking(token, SessionKey(userId, STR_1), modelId, STR_1,
                                      STR_1, tokenBuffers, globalChatHistory)
      room == RoomId(userId, STR_1, STR_1, EmptyStr)
  IN  /\ busCount < MaxTokens
      /\ busCount' = busCount + 1
      /\ tokenBuffers' = p.buffers
      /\ globalChatHistory' = p.history
      /\ emitted' = emitted
                      \o [k \in 1..Len(p.events) |->
                            ParserEmit(room, p.events[k], STR_1, STR_1, STR_1)]
                      \o (IF Truthy(Trim(p.result))
                          THEN <<Event(room, "stream", p.result, STR_1, STR_1, "", STR_1)>>
                          ELSE << >>)
      /\ UNCHANGED <<globalSessionNames, sessionMessageCounts, sessionCacheTimestamp,
                     globalModelList, modelListCacheTimestamp, foreignLastSessionIds,
                     sessionCounters, currentUserId, thinkingContentBuffer,
                     globalPersonalizedFiles, globalActiveConsumer, globalConsumerCount,
                     globalStreamingSessions, chats, stops, liveConsumers, deletes,
                     httpVars, lastReply, minted, logins>>

\* The chat request to Upstream settles (part_000 1054-1199): "ok" is a success
\* status, "notok" any other status, "throw" a network failure. Upstream names
\* the session in its reply to the first chat of a session.
FetchReturn(i, outcome) ==
  LET c == chats[i]
      Failure(completionType) ==
        <<Event(c.room, "error", EmptyStr, c.chat, c.session, "", EmptyStr),
          Event(c.room, "complete", EmptyStr, c.chat, c.session, completionType, EmptyStr)>>
      ack == <<Event(c.sock, "chat-message-received", EmptyStr, c.chat, c.session, "",
                     EmptyStr)>>
  IN  /\ c.pc = "fetch"
      /\ outcome \in {"ok", "notok", "throw"}
      /\ IF outcome = "ok"
         THEN /\ chats' = [chats EXCEPT ![i].pc = "done", ![i].successTimer = TRUE,
                                        ![i].replySessionName =
                                           IF c.chat = STR_1 THEN TITLE_A ELSE EmptyStr]
              /\ emitted' = emitted \o ack
         ELSE /\ chats' = [chats EXCEPT ![i].pc = "done", ![i].isStreamingComplete = TRUE,
                                        ![i].cleanupTimers = @ + 1]
              /\ emitted' = IF outcome = "notok"
                            THEN emitted \o Failure("foreign_server_error")
                            ELSE emitted \o Failure("network_error") \o ack
      /\ UNCHANGED <<chatJsVars, socketVars, stops, liveConsumers, busCount, deletes, httpVars,
                     lastReply, minted, logins>>

\* The 5 s timer set after a success reply fires (part_000 1119-1141).
SuccessTimerFire(i) ==
  LET c == chats[i]
  IN  /\ c.successTimer
      /\ IF ~c.isStreamingComplete
         THEN /\ chats' = [chats EXCEPT ![i].successTimer = FALSE,
                                        ![i].isStreamingComplete = TRUE,
                                        ![i].cleanupTimers = @ + 1]
              /\ emitted' = Append(emitted,
                                   Event(c.room, "complete", EmptyStr, c.chat, c.session,
                                         "foreign_server_success", EmptyStr))
         ELSE /\ chats' = [chats EXCEPT ![i].successTimer = FALSE]
              /\ UNCHANGED emitted
      /\ UNCHANGED <<chatJsVars, socketVars, stops, liveConsumers, busCount, deletes, httpVars,
                     lastReply, minted, logins>>

\* A timer set with setTimeout(cleanupConsumer) fires (part_000 890-892, 1109-1111,
\* 1137-1139, 1188-1190).
CleanupTimerFire(i) ==
  /\ chats[i].cleanupTimers > 0
  /\ cleanupConsumer(i, [chats[i] EXCEPT !.cleanupTimers = @ - 1])
  /\ UNCHANGED <<chatJsVars, globalConsumerCount, stops, busCount, deletes, httpVars, outVars,
                 minted, logins>>

\* Time passes: the idle window since the last Bus message of the chat is over.
WindowElapses(i) ==
  /\ chats[i].recentMessage
  /\ chats' = [chats EXCEPT ![i].recentMessage = FALSE]
  /\ UNCHANGED <<chatJsVars, socketVars, stops, liveConsumers, busCount, deletes, httpVars,
                 outVars, minted, logins>>

\* The 60 s safety timer fires (part_000 1022-1034).
SafetyTimerFire(i) ==
  LET c == chats[i]
      fired == [c EXCEPT !.completionTimeout = FALSE]
  IN  /\ c.completionTimeout
      /\ IF ~c.isStreamingComplete
         THEN /\ cleanupConsumer(i, [fired EXCEPT !.isStreamingComplete = TRUE])
              /\ emitted' = Append(emitted,
                                   Event(c.room, "complete", EmptyStr, EmptyStr, EmptyStr,
                                         "safety_timeout", EmptyStr))
         ELSE /\ chats' = [chats EXCEPT ![i] = fired]
              /\ UNCHANGED <<liveConsumers, globalActiveConsumer, globalStreamingSessions,
                             tokenBuffers, emitted>>
      /\ UNCHANGED <<chatJsVars, globalConsumerCount, stops, busCount, deletes, httpVars, lastReply,
                     minted, logins>>

(***************************************************************************)
(* POST /stop (chat.js 2697-2873) and forceCleanupConsumerForSession       *)
(* (part_000 514-559).                                                     *)
(***************************************************************************)
\* Whether forceCleanupConsumerForSession finds the tracked consumer to match.
TagMatches(consumerTag, userId, sessionId, chatId) ==
  LET sessionPattern == userId \o UNDERSCORE \o sessionId
      chatPattern == sessionPattern \o UNDERSCORE \o chatId
  IN  \/ Includes(consumerTag, sessionPattern)
      \/ (Truthy(chatId) /\ Includes(consumerTag, chatPattern))

\* The request arrives and the stop call to Upstream is sent (chat.js 2699-2733).
StopRequest(j, body) ==
  /\ stops[j].pc = "idle"
  /\ stops' = [stops EXCEPT ![j] = [NoStop EXCEPT
                 !.pc = "fetch",
                 !.user = IF Truthy(body.user_id) THEN body.user_id ELSE currentUserId,
                 !.session = body.session_id, !.chat = body.chat_id,
                 !.instance = body.instance_id]]
  /\ UNCHANGED <<chatJsVars, socketVars, chats, liveConsumers, busCount, deletes, httpVars, outVars,
                 minted, logins>>

\* chat.js 2757-2794 and 2827-2860: the events and the reply that end the cleanup.
StopFinish(j, s) ==
  /\ emitted' = emitted \o
       <<Event(RoomId(s.user, s.session, s.chat, s.instance), "complete", EmptyStr,
               s.chat, s.session,
               IF s.path = "ok" THEN "user_stopped" ELSE "timeout_stopped", EmptyStr),
         Event(RoomId(s.user, s.session, s.chat, s.instance), "cleanup-generation",
               EmptyStr, s.chat, s.session, "", EmptyStr)>>
  /\ lastReply' = [endpoint |-> "stop", status |-> 200, cleanup_completed |-> TRUE]
  /\ stops' = [stops EXCEPT ![j] = [s EXCEPT !.pc = "done", !.target = 0]]

\* The stop call to Upstream settles (chat.js 2735-2863): "ok" a success status,
\* "notok" any other status, "throw" a network error or the 100 s abort.
StopFetchReturn(j, outcome) ==
  LET s == [stops[j] EXCEPT !.path = outcome]
      tracked == globalActiveConsumer
  IN  /\ stops[j].pc = "fetch"
      /\ outcome \in {"ok", "notok", "throw"}
      /\ IF outcome = "notok"
         THEN /\ lastReply' = [endpoint |-> "stop", status |-> 500,
                               cleanup_completed |-> FALSE]
              /\ stops' = [stops EXCEPT ![j] = [s EXCEPT !.pc = "done"]]
              /\ UNCHANGED emitted
         ELSE IF ~Truthy(s.session)
         THEN /\ lastReply' = [endpoint |-> "stop", status |-> 200,
                               cleanup_completed |-> TRUE]
              /\ stops' = [stops EXCEPT ![j] = [s EXCEPT !.pc = "done"]]
              /\ UNCHANGED emitted
         ELSE IF tracked # 0 /\ TagMatches(ConsumerTag(tracked), s.user, s.session, s.chat)
         THEN /\ stops' = [stops EXCEPT ![j] = [s EXCEPT !.pc = "cancel", !.target = tracked]]
              /\ UNCHANGED <<emitted, lastReply>>
         ELSE StopFinish(j, s)
      /\ UNCHANGED <<chatJsVars, socketVars, chats, liveConsumers, busCount, deletes, httpVars,
                     minted, logins>>

\* cancelConsumer returned (ok) or threw inside forceCleanupConsumerForSession
\* (part_000 531-550), and /stop runs to its reply.
StopCancelReturn(j, ok) ==
  LET s == stops[j]
      sessionKey == SessionKey(s.user, s.session)
  IN  /\ s.pc = "cancel"
      /\ IF ok
         THEN /\ liveConsumers' = cancelConsumer(liveConsumers, s.target)
              /\ globalActiveConsumer' = 0
              /\ globalChatHistory' =
                   IF Truthy(s.chat)
                   THEN removeIncompleteChatFromHistory(globalChatHistory, s.user,
                                                        s.session, s.chat)
                   ELSE globalChatHistory
              /\ globalStreamingSessions' = Del(globalStreamingSessions, sessionKey)
              /\ tokenBuffers' = cleanupTokenBuffer(tokenBuffers, sessionKey)
         ELSE UNCHANGED <<liveConsumers, globalActiveConsumer, globalChatHistory,
                          globalStreamingSessions, tokenBuffers>>
      /\ StopFinish(j, s)
      /\ UNCHANGED <<globalSessionNames, sessionMessageCounts, sessionCacheTimestamp,
                     globalModelList, modelListCacheTimestamp, foreignLastSessionIds,
                     sessionCounters, currentUserId, thinkingContentBuffer,
                     globalPersonalizedFiles, globalConsumerCount, chats, busCount,
                     deletes, httpVars, minted, logins>>

(***************************************************************************)
(* POST /sessionName (chat.js 1149-1592): the session-index sync.  A        *)
(* consumer on the session-index queue is known by the number of the       *)
(* request that subscribed it.                                             *)
(***************************************************************************)
PAGE_LIMIT == 10

Take(seq, n) == SubSeq(seq, 1, Min({Len(seq), n}))

\* An Upstream payload on the session-index queue.  format "arrays" is the array of
\* [id, title] pairs, "users" the array of one {user_id, sessions} object, "object"
\* the {user_id, sessions} object; sessions is the list of its (id, title) pairs.
SyncMessage(format, user_id, sessions) ==
  [format |-> format, user_id |-> user_id, sessions |-> sessions]

SyncEntry(id, title) == [S_id |-> id, title |-> title]

\* chat.js 1299-1352: transformedSessions
TransformSessions(message, user_id) ==
  IF message.format = "arrays" /\ Len(message.sessions) > 0 THEN message.sessions
  ELSE IF message.format = "users" /\ Truthy(message.user_id)
  THEN IF message.user_id = user_id THEN message.sessions ELSE << >>
  ELSE IF message.format = "object" /\ message.user_id = user_id THEN message.sessions
  ELSE << >>

\* The position of the entry of session id in a Map kept as the sequence of its
\* values in insertion order, 0 when the Map has no such key.
MapIndex(map, id) ==
  IF \E k \in 1..Len(map) : map[k].session_id = id
  THEN Min({k \in 1..Len(map) : map[k].session_id = id})
  ELSE 0

\* sessionMap.set(session.session_id, {...session, originalSource: session.source})
\* of an existing catalog entry (chat.js 1370-1376)
MapSet(map, session) ==
  LET entry == [originalSource |-> session.source] @@ session
  IN  IF MapIndex(map, session.session_id) = 0 THEN Append(map, entry)
      ELSE [map EXCEPT ![MapIndex(map, session.session_id)] = entry]

\* existing.originalSource || existing.source (chat.js 1400): an entry the payload
\* added has no originalSource.
OldSource(existing) ==
  IF existing.originalSource # "" THEN existing.originalSource ELSE existing.source

\* MapUpsert with the bug that a title the catalog already holds is kept.
MapUpsertKeepsTitle(map, session, user_id) ==
  IF MapIndex(map, session.S_id) = 0
  THEN Append(map, [originalSource |-> ""]
                     @@ SessionRec(session.S_id, session.title, user_id, "rabbitmq",
                                   EmptyStr, 0, "rabbitmq"))
  ELSE [map EXCEPT ![MapIndex(map, session.S_id)] =
          [@ EXCEPT !.source = IF OldSource(map[MapIndex(map, session.S_id)]) = "local"
                               THEN "local_updated_from_rabbitmq" ELSE "rabbitmq",
                    !.titleSource = "rabbitmq"]]

\* chat.js 1379-1420: one session of the payload is added to the Map, or overwrites
\* the title of the entry the Map holds for its id.
MapUpsert(map, session, user_id) ==
  IF MapIndex(map, session.S_id) = 0
  THEN Append(map, [originalSource |-> ""]
                     @@ SessionRec(session.S_id, session.title, user_id, "rabbitmq",
                                   EmptyStr, 0, "rabbitmq"))
  ELSE [map EXCEPT ![MapIndex(map, session.S_id)] =
          [@ EXCEPT !.title = session.title,
                    !.source = IF OldSource(map[MapIndex(map, session.S_id)]) = "local"
                               THEN "local_updated_from_rabbitmq" ELSE "rabbitmq",
                    !.titleSource = "rabbitmq"]]

RECURSIVE MapSetAll(_, _)
MapSetAll(map, sessions) ==
  IF sessions = << >> THEN map
  ELSE MapSetAll(MapSet(map, Head(sessions)), Tail(sessions))

RECURSIVE MapUpsertAll(_, _, _)
MapUpsertAll(map, sessions, user_id) ==
  IF sessions = << >> THEN map
  ELSE MapUpsertAll(MapUpsert(map, Head(sessions), user_id), Tail(sessions), user_id)

\* A Map entry as the catalog keeps it: originalSource is written anew at the start
\* of every merge and read nowhere else, so the catalog is kept without it.
CatalogEntry(entry) ==
  SessionRec(entry.session_id, entry.title, entry.user_id, entry.source,
             entry.current_chat_id, entry.total_chats, entry.titleSource)

\* chat.js 1363-1423: deduplicatedSessions
DeduplicatedSessions(names, transformed, user_id) ==
  LET map == MapUpsertAll(MapSetAll(<< >>, UserSessions(names, user_id)), transformed,
                          user_id)
  IN  [k \in 1..Len(map) |-> CatalogEntry(map[k])]

OtherSessions(names, user_id) ==
  LET Other(session) == session.user_id # user_id
  IN  SelectSeq(names, Other)

\* The sessions of a reply: S_id and title of each catalog entry given.
RECURSIVE ReplySessions(_)
ReplySessions(sessions) ==
  IF sessions = << >> THEN << >>
  ELSE <<SyncEntry(Head(sessions).session_id, Head(sessions).title)>>
         \o ReplySessions(Tail(sessions))

\* chat.js 1224-1228: the sessions with the highest numeric id first (the sort is
\* stable).
RECURSIVE SortLatestFirst(_)
SortLatestFirst(sessions) ==
  IF sessions = << >> THEN << >>
  ELSE LET top == Max({SessionNum(sessions[k].session_id) : k \in 1..Len(sessions)})
           first == Min({k \in 1..Len(sessions) :
                           SessionNum(sessions[k].session_id) = top})
       IN  <<sessions[first]>>
             \o SortLatestFirst(SubSeq(sessions, 1, first - 1)
                                  \o SubSeq(sessions, first + 1, Len(sessions)))

\* cleanupConsumer of /sessionName (chat.js 1169-1186) with closure s; ok tells
\* whether cancelConsumer returned normally.
SyncCleanup(s, j, live, ok) ==
  IF s.rabbitConsumer # 0 /\ ~s.isStreamingComplete
  THEN [closure |-> [s EXCEPT !.rabbitConsumer = 0, !.isStreamingComplete = TRUE],
        live |-> IF ok THEN cancelConsumer(live, j) ELSE live]
  ELSE [closure |-> s, live |-> live]

\* resolve(value) of the session data promise: the first settlement wins.
SyncResolve(s, value) ==
  IF s.promise = "pending" THEN [s EXCEPT !.promise = "resolved", !.data = value] ELSE s

\* The variables of chat.js a /sessionName request leaves alone, the catalog and
\* the cache timestamps apart.
syncFrame ==
  <<globalChatHistory, sessionMessageCounts, globalModelList, modelListCacheTimestamp,
    foreignLastSessionIds, sessionCounters, currentUserId, thinkingContentBuffer,
    globalPersonalizedFiles, socketVars, chats, stops, liveConsumers, deletes, emitted,
    posts, postConsumers, minted, logins>>

\* The request arrives (chat.js 1149-1518): without a user it is refused; a catalog
\* that holds Upstream data is answered from the cache; otherwise the timer is
\* set, consumeQueue is called and the request to Upstream is sent.
SessionNameRequest(j) ==
  LET user_id == currentUserId
      userGlobalSessions == UserSessions(globalSessionNames, user_id)
      hasForeignServerData ==
        \E k \in 1..Len(userGlobalSessions) : userGlobalSessions[k].source = "rabbitmq"
      hasLocalSessionsOnly == Len(userGlobalSessions) > 0 /\ ~hasForeignServerData
  IN  /\ syncs[j].pc = "idle"
      /\ IF ~Truthy(user_id)
         THEN /\ lastReply' = [endpoint |-> "sessionName", status |-> 401]
              /\ syncs' = [syncs EXCEPT ![j].pc = "done"]
              /\ UNCHANGED sessionCacheTimestamp
         ELSE IF Len(userGlobalSessions) > 0 /\ hasForeignServerData
         THEN /\ sessionCacheTimestamp' = sessionCacheTimestamp \cup {user_id}
              /\ lastReply' =
                   [endpoint |-> "sessionName", status |-> 200,
                    source |-> "complete_cache_with_foreign_data",
                    sessions |-> Take(ReplySessions(SortLatestFirst(userGlobalSessions)),
                                      PAGE_LIMIT)]
              /\ syncs' = [syncs EXCEPT ![j].pc = "done", ![j].user = user_id]
         ELSE /\ syncs' = [syncs EXCEPT ![j] =
                             [@ EXCEPT !.pc = "fetch", !.user = user_id,
                                       !.timeout = TRUE, !.subscribe = "pending",
                                       !.promise = "pending",
                                       !.localOnly = hasLocalSessionsOnly,
                                       !.cached = userGlobalSessions]]
              /\ UNCHANGED <<lastReply, sessionCacheTimestamp>>
      /\ UNCHANGED <<globalSessionNames, syncFrame, sessionConsumers, busCount>>

\* consumeQueue's promise resolves (chat.js 1480-1483): the broker delivers to the
\* consumer from now on and the handler records it.
SessionNameSubscribeResolve(j) ==
  /\ syncs[j].subscribe = "pending"
  /\ syncs' = [syncs EXCEPT ![j].subscribe = "resolved", ![j].rabbitConsumer = j]
  /\ sessionConsumers' = sessionConsumers \cup {j}
  /\ UNCHANGED <<globalSessionNames, sessionCacheTimestamp, syncFrame, lastReply, busCount>>

\* consumeQueue's promise rejects (chat.js 1483-1487)
SessionNameSubscribeReject(j) ==
  /\ syncs[j].subscribe = "pending"
  /\ syncs' = [syncs EXCEPT ![j] =
                 [@ EXCEPT !.subscribe = "rejected", !.timeout = FALSE,
                           !.promise = IF @ = "pending" THEN "rejected" ELSE @]]
  /\ UNCHANGED <<globalSessionNames, sessionCacheTimestamp, syncFrame, lastReply,
                 sessionConsumers, busCount>>

\* The request to Upstream settles (chat.js 1520-1553): "ok" a success status,
\* "notok" any other status, "throw" a network error or the 30 s abort.
SessionNameFetchReturn(j, outcome) ==
  /\ syncs[j].pc = "fetch"
  /\ IF outcome = "throw" /\ syncs[j].localOnly /\ Len(syncs[j].cached) > 0
     THEN /\ lastReply' = [endpoint |-> "sessionName", status |-> 200,
                           source |-> "local_fallback",
                           sessions |-> Take(ReplySessions(syncs[j].cached), PAGE_LIMIT)]
          /\ syncs' = [syncs EXCEPT ![j].pc = "done"]
     ELSE /\ syncs' = [syncs EXCEPT ![j].pc = "wait"]
          /\ UNCHANGED lastReply
  /\ UNCHANGED <<globalSessionNames, sessionCacheTimestamp, syncFrame, sessionConsumers,
                 busCount>>

\* await sessionDataPromise returns or throws (chat.js 1557-1591)
SessionNameFinish(j, ok) ==
  LET c == SyncCleanup(syncs[j], j, sessionConsumers, ok)
  IN  /\ syncs[j].pc = "wait"
      /\ syncs[j].promise \in {"resolved", "rejected"}
      /\ IF syncs[j].promise = "resolved"
         THEN /\ lastReply' = [endpoint |-> "sessionName", status |-> 200,
                               source |-> "foreign_server_rabbitmq",
                               sessions |-> Take(syncs[j].data, PAGE_LIMIT)]
              /\ syncs' = [syncs EXCEPT ![j].pc = "done"]
              /\ UNCHANGED sessionConsumers
         ELSE /\ lastReply' = [endpoint |-> "sessionName", status |-> 500]
              /\ syncs' = [syncs EXCEPT ![j] = [c.closure EXCEPT !.pc = "done"]]
              /\ sessionConsumers' = c.live
      /\ UNCHANGED <<globalSessionNames, sessionCacheTimestamp, syncFrame, busCount>>

\* The 30 s timer of the session data fires (chat.js 1280-1284)
SessionNameTimeout(j, ok) ==
  LET c == SyncCleanup([syncs[j] EXCEPT !.timeout = FALSE], j, sessionConsumers, ok)
  IN  /\ syncs[j].timeout
      /\ syncs' = [syncs EXCEPT ![j] = SyncResolve(c.closure, << >>)]
      /\ sessionConsumers' = c.live
      /\ UNCHANGED <<globalSessionNames, sessionCacheTimestamp, syncFrame, lastReply,
                     busCount>>

\* chat.js 1357-1459: the payload names sessions; they are merged into the catalog
\* of the user, the promise is resolved and the consumer cleaned up.
SyncMerge(j, transformed, ok) ==
  LET s == syncs[j]
      deduplicatedSessions == DeduplicatedSessions(globalSessionNames, transformed, s.user)
      resolved == SyncResolve([s EXCEPT !.timeout = FALSE, !.consumed = transformed],
                              ReplySessions(deduplicatedSessions))
      c == SyncCleanup(resolved, j, sessionConsumers, ok)
  IN  /\ globalSessionNames' =
           deduplicatedSessions \o OtherSessions(globalSessionNames, s.user)
      /\ syncs' = [syncs EXCEPT ![j] = c.closure]
      /\ sessionConsumers' = c.live

\* chat.js 1460-1476: the payload names no session of the user
SyncNothing(j, ok) ==
  LET s == syncs[j]
      c == SyncCleanup([s EXCEPT !.timeout = FALSE], j, sessionConsumers, ok)
  IN  /\ syncs' = [syncs EXCEPT ![j] =
                     SyncResolve(c.closure,
                                 ReplySessions(UserSessions(globalSessionNames, s.user)))]
      /\ sessionConsumers' = c.live
      /\ UNCHANGED globalSessionNames

\* The consumer callback of request j runs on a payload of the session-index queue
\* (chat.js 1287-1479).
SessionNameDeliver(j, message, ok) ==
  /\ j \in sessionConsumers
  /\ busCount < MaxBus
  /\ busCount' = busCount + 1
  /\ IF syncs[j].isStreamingComplete
     THEN UNCHANGED <<globalSessionNames, syncs, sessionConsumers>>
     ELSE IF Len(TransformSessions(message, syncs[j].user)) > 0
     THEN SyncMerge(j, TransformSessions(message, syncs[j].user), ok)
     ELSE SyncNothing(j, ok)
  /\ UNCHANGED <<sessionCacheTimestamp, syncFrame, lastReply>>

(***************************************************************************)
(* POST /chat (chat.js 185-316, 469-543, 545-1146).  The response is       *)
(* modelled by the chunks written to it (their types), headersSent and     *)
(* whether it was ended.                                                   *)
(***************************************************************************)
\* The fallback mapping of getModelNameFromId of chat.js (chat.js 195-200).
FallbackMapping ==
  << <<<<"1">>, <<"L", "l", "a", "m", "a", "-", "3", ".", "1", "-", "8", "B", "-", "I", "n", "s", "t", "r", "u", "c", "t", "-", "U", "D">>>>,
     <<<<"2">>, <<"g", "p", "t", "-", "o", "s", "s", "-", "2", "0", "b">>>>,
     <<<<"3">>, <<"Q", "w", "e", "n", "-", "1", ".", "5", "B", "-", "Q", "u", "i", "c", "k", "C", "h", "a", "t">>>>,
     <<<<"4">>, <<"I", "n", "t", "e", "r", "V", "L", "-", "V", "i", "s", "i", "o", "n", "-", "L", "L", "M">>>> >>

\* getModelNameFromId of chat.js (184-210): the name of the cached model list, then
\* the fallback mapping; EmptyStr stands for null.
getModelNameFromIdHttp(modelList, modelId) ==
  LET cached == {k \in 1..Len(modelList) : modelList[k].id = modelId /\ Truthy(modelList[k].name)}
      fallback == {k \in 1..Len(FallbackMapping) : FallbackMapping[k][1] = modelId}
  IN  IF ~Truthy(modelId) THEN EmptyStr
      ELSE IF cached # {} THEN modelList[Min(cached)].name
      ELSE IF fallback # {} THEN FallbackMapping[Min(fallback)][2]
      ELSE EmptyStr

\* The matches of startTag([\s\S]*?)endTag in content from left to right
\* (chat.js 234-249): the texts between the tags, each trimmed and followed by two
\* line feeds, and the content without the matches.
RECURSIVE ThinkingMatches(_, _, _)
ThinkingMatches(content, startTag, endTag) ==
  LET st == IndexOf(content, startTag)
      en == IF st < 0 THEN -1 ELSE IndexOfFrom(content, endTag, st + Len(startTag))
      rest == ThinkingMatches(SubstringFrom(content, en + Len(endTag)), startTag, endTag)
  IN  IF st < 0 \/ en < 0 \/ Len(content) = 0
      THEN [hasThinking |-> FALSE, thinkingContent |-> EmptyStr, mainContent |-> content]
      ELSE [hasThinking |-> TRUE,
            thinkingContent |-> Trim(Substring(content, st + Len(startTag), en))
                                  \o <<"\n", "\n">> \o rest.thinkingContent,
            mainContent |-> Substring(content, 0, st) \o rest.mainContent]

\* s.replace(new RegExp(`${a}|${b}`, 'g'), ''): every occurrence of either tag is
\* taken out, the leftmost first, a before b at the same place.
RECURSIVE RemoveTags(_, _, _)
RemoveTags(s, a, b) ==
  LET ia == IF Len(a) = 0 THEN -1 ELSE IndexOf(s, a)
      ib == IF Len(b) = 0 THEN -1 ELSE IndexOf(s, b)
      useA == ia >= 0 /\ (ib < 0 \/ ia <= ib)
      i == IF useA THEN ia ELSE ib
      n == IF useA THEN Len(a) ELSE Len(b)
  IN  IF ia < 0 /\ ib < 0 THEN s
      ELSE Substring(s, 0, i) \o RemoveTags(SubstringFrom(s, i + n), a, b)

\* chat.js 252-266: the text between the response tags if both are found, and the
\* response tags taken out.
ResponseOnly(mainContent, cfg) ==
  LET st == IndexOf(mainContent, cfg.responseStart)
      en == IF st < 0 THEN -1
            ELSE IndexOfFrom(mainContent, cfg.responseEnd, st + Len(cfg.responseStart))
      inner == IF st >= 0 /\ en >= 0
               THEN Trim(Substring(mainContent, st + Len(cfg.responseStart), en))
               ELSE mainContent
  IN  IF Truthy(cfg.responseStart) /\ Truthy(cfg.responseEnd)
      THEN Trim(RemoveTags(inner, cfg.responseStart, cfg.responseEnd))
      ELSE mainContent

\* processStreamingThinking (chat.js 215-316) on a non-empty string: the text to
\* stream, the thinking buffer and the chunks written to the response.
processStreamingThinking(content, sessionKey, headersSent, selectedModel, buffer) ==
  LET cfg == MODEL_TYPES(selectedModel)
      m == ThinkingMatches(content, cfg.thinkStart, cfg.thinkEnd)
      main == Trim(RemoveTags(ResponseOnly(Trim(m.mainContent), cfg),
                              cfg.thinkStart, cfg.thinkEnd))
  IN  IF ~cfg.supports_thinking \/ ~Truthy(cfg.thinkStart) \/ ~Truthy(cfg.thinkEnd)
         \/ ~m.hasThinking
      THEN [mainContent |-> content, buffer |-> buffer, written |-> << >>]
      ELSE [mainContent |-> main,
            buffer |-> Put(buffer, sessionKey,
                           (IF Has(buffer, sessionKey) THEN buffer[sessionKey] ELSE EmptyStr)
                             \o m.thinkingContent),
            written |-> IF headersSent THEN << >>
                        ELSE <<"thinking">>
                               \o (IF Truthy(Trim(main)) THEN <<"thinking_complete">>
                                   ELSE << >>)]

\* res.write of chunks of the types given
ResWrite(c, types) ==
  [c EXCEPT !.written = @ \o types, !.headersSent = @ \/ Len(types) > 0]

\* The block every way of ending the queue wait runs: unless the streaming is
\* marked complete already, it is marked, and the 'complete' chunk is written and
\* the response ended if nothing was written before (chat.js 827-839).
CompleteOnce(c, withChunk) ==
  IF c.isStreamingComplete THEN c
  ELSE IF c.headersSent THEN [c EXCEPT !.isStreamingComplete = TRUE]
  ELSE [ResWrite(c, IF withChunk THEN <<"complete">> ELSE << >>)
          EXCEPT !.isStreamingComplete = TRUE, !.ended = TRUE]

\* What no step of POST /chat changes.
postFrame ==
  <<globalModelList, modelListCacheTimestamp, foreignLastSessionIds, sessionCounters,
    currentUserId, globalPersonalizedFiles, socketVars, chats, stops, liveConsumers,
    deletes, syncs, sessionConsumers, emitted, minted, logins>>

\* The data of chat.js a step of POST /chat may write.
postData ==
  <<globalSessionNames, globalChatHistory, sessionMessageCounts, sessionCacheTimestamp,
    thinkingContentBuffer>>

\* The request arrives (chat.js 545-776): the user is the one of the body unless it
\* is missing or 'default_user'; missing fields and a session at the prompt limit
\* are refused; otherwise the prompt is counted, the old transcript written to the
\* response, the prompt stored, the catalog updated, the test chunk scheduled and
\* the request to Upstream sent.
ChatRequest(r, body) ==
  LET user_id == BodyUser(body.user_id)
      sessionKey == SessionKey(user_id, body.session_id)
      currentCount == IF Has(sessionMessageCounts, sessionKey)
                      THEN sessionMessageCounts[sessionKey] ELSE 0
      h == HistoryOf(globalChatHistory, sessionKey)
      hits == {k \in 1..Len(globalSessionNames) :
                 /\ globalSessionNames[k].session_id = body.session_id
                 /\ globalSessionNames[k].user_id = user_id}
      old == IF Len(h) > 0
             THEN <<"history_start">> \o [k \in 1..Len(h) |-> "history"] \o <<"history_end">>
             ELSE << >>
      c == [ResWrite(NoPost, old)
              EXCEPT !.pc = "fetch", !.user = user_id, !.session = body.session_id,
                     !.chat = body.chat_id, !.model = body.llm_model_id,
                     !.testTimer = TRUE,
                     !.replayed = [k \in 1..Len(h) |->
                                     [role |-> h[k].role, content |-> h[k].content]]]
      refused == [NoPost EXCEPT !.pc = "refused", !.user = user_id,
                                !.session = body.session_id, !.chat = body.chat_id,
                                !.model = body.llm_model_id, !.ended = TRUE]
  IN  /\ posts[r].pc = "idle"
      /\ IF ~Truthy(user_id) \/ ~Truthy(body.session_id) \/ ~Truthy(body.prompt)
         THEN /\ lastReply' = [endpoint |-> "chat", status |-> 400]
              /\ posts' = [posts EXCEPT ![r] = refused]
              /\ UNCHANGED postData
         ELSE IF currentCount >= PROMPT_LIMIT
         THEN /\ lastReply' = [endpoint |-> "chat", status |-> 429]
              /\ posts' = [posts EXCEPT ![r] = refused]
              /\ UNCHANGED postData
         ELSE /\ lastReply' = [endpoint |-> "chat", status |-> 200]
              /\ posts' = [posts EXCEPT ![r] = c]
              /\ sessionMessageCounts' = Put(sessionMessageCounts, sessionKey, currentCount + 1)
              /\ globalChatHistory' =
                   Put(globalChatHistory, sessionKey,
                       Append(h, Message("user", body.prompt, body.chat_id, body.session_id,
                                         user_id, "prompt", FALSE, 0)))
              /\ globalSessionNames' =
                   IF hits = {}
                   THEN <<SessionRec(body.session_id, CHAT_SESSION_PREFIX \o body.session_id,
                                     user_id, "local", body.chat_id, 1, "")>>
                          \o globalSessionNames
                   ELSE [globalSessionNames EXCEPT ![Min(hits)].current_chat_id = body.chat_id,
                                                   ![Min(hits)].total_chats = @ + 1]
              /\ UNCHANGED <<sessionCacheTimestamp, thinkingContentBuffer>>
      /\ UNCHANGED <<postFrame, postConsumers, busCount>>

\* The test chunk, one second after the request (chat.js 706-710)
ChatTestTimer(r) ==
  /\ posts[r].testTimer
  /\ posts' = [posts EXCEPT
                 ![r] = [(IF ~posts[r].headersSent /\ ~posts[r].isStreamingComplete
                          THEN ResWrite(posts[r], <<"stream">>) ELSE posts[r])
                           EXCEPT !.testTimer = FALSE]]
  /\ UNCHANGED <<postFrame, postData, postConsumers, busCount, lastReply>>

\* The request to Upstream settles (chat.js 747-937): a failure to send counts as a
\* reply that is not ok.  Only now the handler sets the timer of the queue wait and
\* calls consumeQueue.
ChatFetchReturn(r, ok, reply) ==
  /\ posts[r].pc = "fetch"
  /\ posts' = [posts EXCEPT ![r].pc = "queue", ![r].ok = ok,
                            ![r].complete = ok /\ reply.complete,
                            ![r].SESSION_NAME = IF ok THEN reply.SESSION_NAME ELSE EmptyStr,
                            ![r].queueCheckTimeout = TRUE, ![r].subscribe = "pending"]
  /\ UNCHANGED <<postFrame, postData, postConsumers, busCount, lastReply>>

\* The timer of the queue wait (chat.js 826-841)
ChatQueueTimeout(r) ==
  /\ posts[r].queueCheckTimeout
  /\ posts' = [posts EXCEPT ![r] = [CompleteOnce(posts[r], TRUE)
                                      EXCEPT !.queueCheckTimeout = FALSE, !.resolved = TRUE]]
  /\ UNCHANGED <<postFrame, postData, postConsumers, busCount, lastReply>>

\* consumeQueue's promise resolves (chat.js 903-930): the consumer is live and the
\* check for an empty queue is scheduled.
ChatSubscribeResolve(r) ==
  /\ posts[r].subscribe = "pending"
  /\ posts' = [posts EXCEPT ![r].subscribe = "resolved", ![r].rabbitConsumer = r,
                            ![r].checkTimer = TRUE]
  /\ postConsumers' = postConsumers \cup {[post |-> r, kind |-> "queue"]}
  /\ UNCHANGED <<postFrame, postData, busCount, lastReply>>

\* consumeQueue's promise rejects (chat.js 931-941)
ChatSubscribeReject(r) ==
  /\ posts[r].subscribe = "pending"
  /\ posts' = [posts EXCEPT ![r] = [CompleteOnce(posts[r], FALSE)
                                      EXCEPT !.subscribe = "rejected",
                                             !.queueCheckTimeout = FALSE,
                                             !.resolved = TRUE]]
  /\ UNCHANGED <<postFrame, postData, postConsumers, busCount, lastReply>>

\* The check for an empty queue (chat.js 909-930)
ChatCheckTimer(r) ==
  /\ posts[r].checkTimer
  /\ posts' = [posts EXCEPT
                 ![r] = IF /\ posts[r].messagesProcessed = 0
                           /\ ~posts[r].completionReceived
                           /\ ~posts[r].isStreamingComplete
                        THEN [CompleteOnce(posts[r], TRUE)
                                EXCEPT !.checkTimer = FALSE, !.queueCheckTimeout = FALSE,
                                       !.resolved = TRUE]
                        ELSE [posts[r] EXCEPT !.checkTimer = FALSE]]
  /\ UNCHANGED <<postFrame, postData, postConsumers, busCount, lastReply>>

\* 100 ms after a completion signal (chat.js 866-879)
ChatCompletionTimer(r) ==
  /\ posts[r].completionTimer
  /\ posts' = [posts EXCEPT ![r] = [CompleteOnce(posts[r], TRUE)
                                      EXCEPT !.completionTimer = FALSE, !.resolved = TRUE]]
  /\ UNCHANGED <<postFrame, postData, postConsumers, busCount, lastReply>>

TYPE_COMPLETE == <<"c", "o", "m", "p", "l", "e", "t", "e">>

\* isCompletionMessage of POST /chat (chat.js 852-858); content === 'COMPLETION' is a
\* case of the last test.
IsCompletionMessage(m) ==
  \/ m.type = TYPE_COMPLETE
  \/ m.type = TYPE_COMPLETION
  \/ m.status = STR_DONE
  \/ (Truthy(m.content) /\ Includes(ToLowerCase(m.content), TYPE_COMPLETION))

\* The request of a POST /chat for the chat was sent to Upstream.
PostRequested(chatId) ==
  \E k \in 1..MaxPosts : posts[k].chat = chatId /\ posts[k].pc \notin {"idle", "refused"}

\* The consumer callback of the queue wait runs on Bus message m (chat.js 844-902).
ChatDeliver(r, m) ==
  LET c == posts[r]
      p == processStreamingThinking(m.content, SessionKey(c.user, c.session), c.headersSent,
                                    getModelNameFromIdHttp(globalModelList, c.model),
                                    thinkingContentBuffer)
  IN  /\ [post |-> r, kind |-> "queue"] \in postConsumers
      /\ Requested(m.origin) \/ PostRequested(m.origin)
      /\ busCount < MaxBus
      /\ busCount' = busCount + 1
      /\ IF c.isStreamingComplete
         THEN UNCHANGED <<posts, thinkingContentBuffer>>
         ELSE IF IsCompletionMessage(m)
         THEN /\ posts' = [posts EXCEPT ![r].messagesProcessed = @ + 1,
                                        ![r].completionReceived = TRUE,
                                        ![r].queueCheckTimeout = FALSE,
                                        ![r].completionTimer = TRUE]
              /\ UNCHANGED thinkingContentBuffer
         ELSE IF Truthy(m.content) /\ ~c.headersSent
         THEN /\ posts' = [posts EXCEPT
                             ![r] = [ResWrite(c, p.written
                                                   \o (IF Truthy(Trim(p.mainContent))
                                                       THEN <<"stream">> ELSE << >>))
                                       EXCEPT !.messagesProcessed = @ + 1]]
              /\ thinkingContentBuffer' = p.buffer
         ELSE /\ posts' = [posts EXCEPT ![r].messagesProcessed = @ + 1]
              /\ UNCHANGED thinkingContentBuffer
      /\ UNCHANGED <<postFrame, globalSessionNames, globalChatHistory, sessionMessageCounts,
                     sessionCacheTimestamp, postConsumers, lastReply>>

\* The queue wait is over (chat.js 944-1052): after a reply that was ok the handler
\* fetches the session names if the reply names the session of a first chat, and
\* is done otherwise; after one that was not, it sets the two timers of the drain
\* and calls consumeQueue again.
ChatFinish(r) ==
  LET c == posts[r]
  IN  /\ c.pc = "queue"
      /\ c.resolved
      /\ posts' = [posts EXCEPT
                     ![r] = IF c.ok
                            THEN [c EXCEPT !.pc = IF c.chat = STR_1 /\ Truthy(c.SESSION_NAME)
                                                  THEN "names" ELSE "done"]
                            ELSE [c EXCEPT !.pc = "drain", !.drainTimers = TRUE,
                                           !.drainSubscribe = "pending"]]
      /\ UNCHANGED <<postFrame, postData, postConsumers, busCount, lastReply>>

\* fetchSessionNamesFromForeignServer returns (chat.js 469-543, 962-1017): the
\* catalog entries of the user that came from Upstream are replaced by the
\* sessions of the reply, the title of the session is set to the name Upstream
\* gave, and the handler asks Upstream to prepare the session list, whose answer
\* it ignores.
ChatSessionNamesReturn(r, ok, sessions) ==
  LET c == posts[r]
      NotForeign(s) == ~(s.user_id = c.user /\ s.source = "foreign")
      foreignSessions == [k \in 1..Len(sessions) |->
                            SessionRec(sessions[k].S_id, sessions[k].title, c.user,
                                       "foreign", EmptyStr, 0, "")]
      names == IF ok THEN foreignSessions \o SelectSeq(globalSessionNames, NotForeign)
               ELSE globalSessionNames
      hits == {k \in 1..Len(names) :
                 names[k].session_id = c.session /\ names[k].user_id = c.user}
  IN  /\ c.pc = "names"
      /\ posts' = [posts EXCEPT ![r].pc = "done"]
      /\ globalSessionNames' =
           IF hits = {} THEN names ELSE [names EXCEPT ![Min(hits)].title = c.SESSION_NAME]
      /\ sessionCacheTimestamp' = IF ok THEN sessionCacheTimestamp \cup {c.user}
                                  ELSE sessionCacheTimestamp
      /\ UNCHANGED <<postFrame, globalChatHistory, sessionMessageCounts, thinkingContentBuffer,
                     postConsumers, busCount, lastReply>>

\* The two timers of the drain, both of 2000 ms (chat.js 1058-1069): the one set
\* first sets queueDrained, so that the one set second does not resolve the wait.
ChatDrainTimers(r) ==
  /\ posts[r].drainTimers
  /\ posts' = [posts EXCEPT ![r].drainTimers = FALSE, ![r].queueDrained = TRUE]
  /\ UNCHANGED <<postFrame, postData, postConsumers, busCount, lastReply>>

\* The consumeQueue of the drain resolves: the consumer is live; the handler has no
\* reference to it (chat.js 1072-1091).
ChatDrainSubscribeResolve(r) ==
  /\ posts[r].drainSubscribe = "pending"
  /\ posts' = [posts EXCEPT ![r].drainSubscribe = "resolved"]
  /\ postConsumers' = postConsumers \cup {[post |-> r, kind |-> "drain"]}
  /\ UNCHANGED <<postFrame, postData, busCount, lastReply>>

\* The consumeQueue of the drain rejects (chat.js 1091-1116): the wait is resolved
\* and the handler ends the response with an error unless the streaming is marked
\* complete, which every way out of the queue wait has done.
ChatDrainSubscribeReject(r) ==
  LET c == posts[r]
      c1 == IF c.isStreamingComplete THEN c
            ELSE IF c.headersSent THEN [c EXCEPT !.isStreamingComplete = TRUE]
            ELSE [ResWrite(c, <<"error">>) EXCEPT !.isStreamingComplete = TRUE,
                                                  !.ended = TRUE]
  IN  /\ c.drainSubscribe = "pending"
      /\ posts' = [posts EXCEPT ![r] = [c1 EXCEPT !.drainSubscribe = "rejected",
                                                  !.pc = "done"]]
      /\ UNCHANGED <<postFrame, postData, postConsumers, busCount, lastReply>>

\* The consumer callback of the drain runs on Bus message m (chat.js 1072-1090).
ChatDrainDeliver(r, m) ==
  LET c == posts[r]
      p == processStreamingThinking(m.content, SessionKey(c.user, c.session), c.headersSent,
                                    getModelNameFromIdHttp(globalModelList, c.model),
                                    thinkingContentBuffer)
  IN  /\ [post |-> r, kind |-> "drain"] \in postConsumers
      /\ Requested(m.origin) \/ PostRequested(m.origin)
      /\ busCount < MaxBus
      /\ busCount' = busCount + 1
      /\ IF ~c.queueDrained /\ Truthy(m.content) /\ ~c.headersSent
         THEN /\ posts' = [posts EXCEPT
                             ![r] = ResWrite(c, p.written
                                                  \o (IF Truthy(p.mainContent)
                                                      THEN <<"stream">> ELSE << >>))]
              /\ thinkingContentBuffer' = p.buffer
         ELSE UNCHANGED <<posts, thinkingContentBuffer>>
      /\ UNCHANGED <<postFrame, globalSessionNames, globalChatHistory, sessionMessageCounts,
                     sessionCacheTimestamp, postConsumers, lastReply>>

(***************************************************************************)
(* Inputs.                                                                 *)
(***************************************************************************)
USER_U == <<"u">>

PROMPT_HELLO == <<"H", "e", "l", "l", "o">>

MODEL_THINK == <<"7">>

MODEL_PLAIN == <<"1">>

SESSION_1 == <<"1">>

SOCK_K == <<"k">>

SOCK_XU == <<"x", "u">>

Sockets == {SOCK_K, SOCK_XU}

TEXT_HEY == <<"H", "e", "y">>

THINK_BLOCK == THINK_START \o <<"H", "m">> \o THINK_END

\* The chat ids of the invocations: the client numbers its chats.
ChatIdOf(i) == NumToString(i)

ChatIds == {ChatIdOf(i) : i \in 1..MaxInv}

\* send-chat-message payloads of chats in sessions of their own: chat i is the first
\* chat of session i.
SessionInputs(i) ==
  {[userId |-> EmptyStr, session_id |-> NumToString(i), chat_id |-> ChatIdOf(i),
    instance_id |-> EmptyStr, llm_model_id |-> MODEL_THINK, prompt |-> PROMPT_HELLO,
    roomId |-> RoomId(USER_U, NumToString(i), ChatIdOf(i), EmptyStr), sock |-> SOCK_K]}

\* send-chat-message payloads over the connections in socks: the client addresses
\* the room of the chat.
SendInputs(i, socks) ==
  {[userId |-> EmptyStr, session_id |-> SESSION_1, chat_id |-> ChatIdOf(i),
    instance_id |-> EmptyStr, llm_model_id |-> MODEL_THINK, prompt |-> PROMPT_HELLO,
    roomId |-> RoomId(USER_U, SESSION_1, ChatIdOf(i), EmptyStr), sock |-> sock]
     : sock \in socks}

BusShapes(texts, origin, tagId) ==
  {BusMessage(TYPE_TOKEN, EmptyStr, EmptyStr, data, EmptyStr, tagId, origin) : data \in texts}
  \cup {BusMessage(TYPE_STATUS, STR_DONE, EmptyStr, EmptyStr, EmptyStr, tagId, origin)}

\* Bus messages on the chat queue: tokens with the texts given and the completion
\* signal, with and without a chat_id field.
BusInputs(texts) ==
  UNION {BusShapes(texts, origin, origin) \cup BusShapes(texts, origin, EmptyStr)
           : origin \in ChatIds}

USER_V == <<"v">>

SESSION_2 == <<"2">>

TITLE_B == <<"B">>

\* Upstream payloads on the session-index queue: no session, one, two, and a
\* session id twice with two titles, in each of the formats, for the user and for
\* another user.
SyncSessions ==
  {<< >>,
   <<SyncEntry(SESSION_1, TITLE_A), SyncEntry(SESSION_2, TITLE_B)>>,
   <<SyncEntry(SESSION_1, TITLE_B), SyncEntry(SESSION_1, TITLE_A)>>}

SyncInputs ==
  {SyncMessage(format, user_id, sessions) :
     format \in {"arrays", "users", "object"}, user_id \in {USER_U},
     sessions \in SyncSessions}
    \cup {SyncMessage(format, USER_V, <<SyncEntry(SESSION_1, TITLE_A)>>) :
            format \in {"users", "object"}}

\* The ways the Bus may cut a thinking block into tokens: the tags alone, text,
\* whitespace alone, and a tag sharing a token with text.
TOKEN_H == <<"H">>

TOKEN_SPACE == <<" ">>

ParserTokens ==
  {THINK_START, THINK_END, TOKEN_H, TOKEN_SPACE, THINK_START \o TOKEN_H,
   TOKEN_H \o THINK_END}

\* /stop bodies: the client stops a chat it has submitted.
StopInputs ==
  {[user_id |-> EmptyStr, session_id |-> chats[i].session, chat_id |-> chats[i].chat,
    instance_id |-> EmptyStr] : i \in {k \in 1..MaxInv : chats[k].pc \notin {"idle"}
                                                        /\ Truthy(chats[k].user)}}

\* POST /chat bodies of request r: the client numbers its chats and names the
\* user or leaves the user to the server.
PostInputs(r) ==
  {[user_id |-> u, session_id |-> SESSION_1, chat_id |-> NumToString(r),
    llm_model_id |-> MODEL_THINK, prompt |-> PROMPT_HELLO] : u \in {EmptyStr, USER_U}}

\* Replies of Upstream to a chat request
ChatReplies ==
  {[complete |-> FALSE, SESSION_NAME |-> EmptyStr], [complete |-> TRUE, SESSION_NAME |-> TITLE_A]}

\* Replies of Upstream to the session names request
SessionNamesReplies == {<< >>, <<SyncEntry(SESSION_2, TITLE_B)>>}

\* Bus messages on the chat queue as the HTTP handler reads them: a text in the
\* content field and a completion signal, next to the tokens of the push channel.
PostBusInputs ==
  BusInputs({TEXT_HEY})
    \cup {BusMessage(EmptyStr, EmptyStr, EmptyStr, EmptyStr, text, origin, origin)
            : text \in {TEXT_HEY, THINK_BLOCK}, origin \in ChatIds}
    \cup {BusMessage(TYPE_COMPLETION, EmptyStr, STR_DONE, EmptyStr, EmptyStr, origin, origin)
            : origin \in ChatIds}

(***************************************************************************)
(* The streaming machine: login, chats over the push channel, the Bus,     *)
(* the timers, stop and logout.                                            *)
(***************************************************************************)
\* The environment fails at most MaxFaults times in a run.
Fault(failed) ==
  /\ failed => faults < MaxFaults
  /\ faults' = IF failed THEN faults + 1 ELSE faults

\* The steps of the send-chat-message invocations in I, over the connections in
\* socks, and of their consumers on Bus tokens with the texts given.
ChatSteps(I, socks, texts) ==
  \/ \E i \in I : \E data \in SendInputs(i, socks) :
       (SendChatMessage(i, data) /\ Fault(FALSE))
  \/ \E i \in I : \E connected \in BOOLEAN :
       (EnsureConnectionReturn(i, connected) /\ Fault(~connected))
  \/ \E i \in I : (ConsumeQueueResolve(i) /\ Fault(FALSE))
  \/ \E i \in I : (ConsumeQueueReject(i) /\ Fault(TRUE))
  \/ \E i \in I : \E outcome \in {"ok", "notok", "throw"} :
       (FetchReturn(i, outcome) /\ Fault(outcome # "ok"))
  \/ \E i \in I : (SuccessTimerFire(i) /\ Fault(FALSE))
  \/ \E i \in I : (CleanupTimerFire(i) /\ Fault(FALSE))
  \/ \E i \in I : (SafetyTimerFire(i) /\ Fault(FALSE))
  \/ \E i \in I : \E m \in BusInputs(texts) :
       (busCount < MaxChatBus /\ BusDeliver(i, m) /\ Fault(FALSE))

\* A later invocation resumes after the cancel of the tracked consumer.
PriorSteps(I) ==
  \E i \in I : \E ok \in BOOLEAN : (CancelPriorReturn(i, ok) /\ Fault(~ok))

\* The steps of the /stop requests.
StopSteps ==
  \/ \E j \in 1..MaxStops : \E body \in StopInputs : (StopRequest(j, body) /\ Fault(FALSE))
  \/ \E j \in 1..MaxStops : \E outcome \in {"ok", "notok", "throw"} :
       (StopFetchReturn(j, outcome) /\ Fault(outcome # "ok"))
  \/ \E j \in 1..MaxStops : \E ok \in BOOLEAN : (StopCancelReturn(j, ok) /\ Fault(~ok))

LoginStep == logins < MaxSessions /\ Login(USER_U, 0, << >>) /\ Fault(FALSE)

LogoutStep == flushAllGlobalVariables /\ Fault(FALSE)

\* Chats of one user over the push channel.
Next ==
  \/ LoginStep
  \/ ChatSteps(1..MaxInv, {SOCK_K}, {TEXT_HEY})
  \/ PriorSteps(1..MaxInv)

Spec == Init /\ [][Next]_vars

\* One chat and the stop endpoint.
NextStop ==
  \/ LoginStep
  \/ ChatSteps(1..MaxSolo, Sockets, {TEXT_HEY, THINK_BLOCK})
  \/ StopSteps

SpecStop == Init /\ [][NextStop]_vars

\* One chat and logout.
NextLogout ==
  \/ LoginStep
  \/ LogoutStep
  \/ ChatSteps(1..MaxSolo, Sockets, {TEXT_HEY, THINK_BLOCK})

SpecLogout == Init /\ [][NextLogout]_vars

(***************************************************************************)
(* Session ids alone: logins, mints and logout.                            *)
(***************************************************************************)
NextIds ==
  \/ \E n \in 0..MaxLastId : (logins < MaxLogins /\ Login(USER_U, n, << >>) /\ Fault(FALSE))
  \/ (ChatSession(EmptyStr, EmptyStr) /\ Fault(FALSE))
  \/ (flushAllGlobalVariables /\ Fault(FALSE))

SpecIds == Init /\ [][NextIds]_vars

(***************************************************************************)
(* The session catalog: logins, POST /chatsession, DELETE /deletesession   *)
(* and logout.                                                             *)
(***************************************************************************)
NextCatalog ==
  \/ (logins < MaxSessions /\ Login(USER_U, 0, << >>) /\ Fault(FALSE))
  \/ (ChatSession(EmptyStr, EmptyStr) /\ Fault(FALSE))
  \/ \E k \in 1..Len(globalSessionNames) :
       (DeleteSessionRequest(globalSessionNames[k].session_id) /\ Fault(FALSE))
  \/ (DeleteSessionRequest(NumToString(MaxMints + 1)) /\ Fault(FALSE))
  \/ \E d \in deletes : \E failed \in BOOLEAN : (DeleteSessionFinish(d) /\ Fault(failed))
  \/ (flushAllGlobalVariables /\ Fault(FALSE))

SpecCatalog == Init /\ [][NextCatalog]_vars

(***************************************************************************)
(* The session-index sync: logins, local sessions, /sessionName requests   *)
(* with their consumers, timers and payloads, and logout.                  *)
(***************************************************************************)
SyncSteps ==
  \/ \E j \in 1..MaxSyncs :
       ((\A k \in 1..(j - 1) : syncs[k].pc = "done") /\ SessionNameRequest(j) /\ Fault(FALSE))
  \/ \E j \in 1..MaxSyncs : (SessionNameSubscribeResolve(j) /\ Fault(FALSE))
  \/ \E j \in 1..MaxSyncs : (SessionNameSubscribeReject(j) /\ Fault(TRUE))
  \/ \E j \in 1..MaxSyncs : \E outcome \in {"ok", "notok", "throw"} :
       (SessionNameFetchReturn(j, outcome) /\ Fault(outcome # "ok"))
  \/ \E j \in 1..MaxSyncs : (SessionNameFinish(j, TRUE) /\ Fault(FALSE))
  \/ \E j \in 1..MaxSyncs : \E ok \in BOOLEAN : (SessionNameTimeout(j, ok) /\ Fault(~ok))
  \/ \E j \in 1..MaxSyncs : \E message \in SyncInputs : \E ok \in BOOLEAN :
       (SessionNameDeliver(j, message, ok) /\ Fault(~ok))

NextSync ==
  \/ LoginStep
  \/ \E title \in {EmptyStr, TITLE_B} :
       (Len(minted) < MaxLocal /\ ChatSession(EmptyStr, title) /\ Fault(FALSE))
  \/ SyncSteps
  \/ LogoutStep

SpecSync == Init /\ [][NextSync]_vars

(***************************************************************************)
(* The thinking parser alone, on every sequence of tokens.                 *)
(***************************************************************************)
NextParser ==
  \E token \in ParserTokens : (StreamToken(token, USER_U, MODEL_THINK) /\ Fault(FALSE))

SpecParser == Init /\ [][NextParser]_vars

(***************************************************************************)
(* The thinking parser on an empty thinking region, the two tags in one    *)
(* token or in two.                                                        *)
(***************************************************************************)
EMPTY_PAIR == THINK_START \o THINK_END

PairTokens == {EMPTY_PAIR, THINK_START, THINK_END, TOKEN_H, TOKEN_SPACE}

NextEmptyPair ==
  \E token \in PairTokens : (StreamToken(token, USER_U, MODEL_THINK) /\ Fault(FALSE))

SpecEmptyPair == Init /\ [][NextEmptyPair]_vars

(***************************************************************************)
(* One chat of a thinking model whose answer arrives as tags and text, in  *)
(* tokens of their own or sharing a token, when nothing fails.             *)
(***************************************************************************)
ThinkTexts ==
  {THINK_START, THINK_START \o TOKEN_H, TOKEN_H, THINK_END, THINK_END \o TOKEN_H}

NextThink ==
  \/ LoginStep
  \/ \E data \in SendInputs(1, {SOCK_K}) : (SendChatMessage(1, data) /\ Fault(FALSE))
  \/ (EnsureConnectionReturn(1, TRUE) /\ Fault(FALSE))
  \/ (ConsumeQueueResolve(1) /\ Fault(FALSE))
  \/ (FetchReturn(1, "ok") /\ Fault(FALSE))
  \/ (SuccessTimerFire(1) /\ Fault(FALSE))
  \/ (CleanupTimerFire(1) /\ Fault(FALSE))
  \/ (SafetyTimerFire(1) /\ Fault(FALSE))
  \/ \E m \in BusShapes(ThinkTexts, ChatIdOf(1), ChatIdOf(1)) :
       (BusDeliver(1, m) /\ Fault(FALSE))

SpecThink == Init /\ [][NextThink]_vars

(***************************************************************************)
(* The parser on the tokens of a chat of the gpt-oss family, asked for by  *)
(* model id or by model name.                                              *)
(***************************************************************************)
MODEL_GPT_ID == <<"2">>

TOKEN_B == <<"B">>

GptOssTokens == {GPT_ANALYSIS, TOKEN_H, GPT_END, GPT_RESPONSE_START, TOKEN_B}

\* The chat keeps the model it was started with (sessionContext.modelId, part_000
\* 985-998).
NextGptOss ==
  \E token \in GptOssTokens : \E modelId \in {MODEL_GPT_ID, GPT_OSS_NAME} :
    (/\ Has(tokenBuffers, SessionKey(USER_U, STR_1))
          => tokenBuffers[SessionKey(USER_U, STR_1)].model = getModelNameFromId(modelId)
     /\ StreamToken(token, USER_U, modelId)
     /\ Fault(FALSE))

SpecGptOss == Init /\ [][NextGptOss]_vars

(***************************************************************************)
(* One chat when nothing fails, with the passing of the idle window after  *)
(* a Bus message.                                                          *)
(***************************************************************************)
NextGate ==
  \/ LoginStep
  \/ \E data \in SendInputs(1, {SOCK_K}) : (SendChatMessage(1, data) /\ Fault(FALSE))
  \/ (EnsureConnectionReturn(1, TRUE) /\ Fault(FALSE))
  \/ (ConsumeQueueResolve(1) /\ Fault(FALSE))
  \/ (FetchReturn(1, "ok") /\ Fault(FALSE))
  \/ (SuccessTimerFire(1) /\ Fault(FALSE))
  \/ (CleanupTimerFire(1) /\ Fault(FALSE))
  \/ (SafetyTimerFire(1) /\ Fault(FALSE))
  \/ (WindowElapses(1) /\ Fault(FALSE))
  \/ \E m \in BusShapes({TEXT_HEY}, ChatIdOf(1), ChatIdOf(1)) :
       (BusDeliver(1, m) /\ Fault(FALSE))

SpecGate == Init /\ [][NextGate]_vars

(***************************************************************************)
(* The parser on the tokens of a model without thinking support.           *)
(***************************************************************************)
NextPlain ==
  \E token \in ParserTokens : (StreamToken(token, USER_U, MODEL_PLAIN) /\ Fault(FALSE))

SpecPlain == Init /\ [][NextPlain]_vars

(***************************************************************************)
(* Two chats of one user and their consumers when nothing fails.           *)
(***************************************************************************)
NextMark ==
  \/ LoginStep
  \/ \E i \in 1..MaxInv : \E data \in SendInputs(i, {SOCK_K}) :
       (SendChatMessage(i, data) /\ Fault(FALSE))
  \/ \E i \in 1..MaxInv : (CancelPriorReturn(i, TRUE) /\ Fault(FALSE))
  \/ \E i \in 1..MaxInv : (EnsureConnectionReturn(i, TRUE) /\ Fault(FALSE))
  \/ \E i \in 1..MaxInv : (ConsumeQueueResolve(i) /\ Fault(FALSE))
  \/ \E i \in 1..MaxInv : (FetchReturn(i, "ok") /\ Fault(FALSE))
  \/ \E i \in 1..MaxInv : \E m \in BusInputs({TEXT_HEY}) : (BusDeliver(i, m) /\ Fault(FALSE))

SpecMark == Init /\ [][NextMark]_vars

(***************************************************************************)
(* Two chats of one user in two sessions when nothing fails.               *)
(***************************************************************************)
NextPair ==
  \/ LoginStep
  \/ \E i \in 1..MaxInv : \E data \in SessionInputs(i) :
       (SendChatMessage(i, data) /\ Fault(FALSE))
  \/ \E i \in 1..MaxInv : (CancelPriorReturn(i, TRUE) /\ Fault(FALSE))
  \/ \E i \in 1..MaxInv : (EnsureConnectionReturn(i, TRUE) /\ Fault(FALSE))
  \/ \E i \in 1..MaxInv : (ConsumeQueueResolve(i) /\ Fault(FALSE))
  \/ \E i \in 1..MaxInv : (FetchReturn(i, "ok") /\ Fault(FALSE))
  \/ \E i \in 1..MaxInv : (SuccessTimerFire(i) /\ Fault(FALSE))
  \/ \E i \in 1..MaxInv : (CleanupTimerFire(i) /\ Fault(FALSE))
  \/ \E i \in 1..MaxInv : \E m \in BusInputs({TEXT_HEY}) :
       (busCount < MaxChatBus /\ BusDeliver(i, m) /\ Fault(FALSE))

SpecPair == Init /\ [][NextPair]_vars

(***************************************************************************)
(* One chat under fair scheduling.  Timers that are armed fire, and the    *)
(* handler resumes when the Bus client answers (connection check,          *)
(* subscription); the Upstream reply and Bus messages may never come: the  *)
(* request is sent without a time limit (part_000 1054-1062).              *)
(***************************************************************************)
NextFair ==
  \/ LoginStep
  \/ ChatSteps(1..MaxSolo, {SOCK_K}, {TEXT_HEY})

TimerSteps ==
  \E i \in 1..MaxSolo :
    (SuccessTimerFire(i) \/ CleanupTimerFire(i) \/ SafetyTimerFire(i)) /\ Fault(FALSE)

BusClientSteps ==
  \E i \in 1..MaxSolo :
    \/ \E connected \in BOOLEAN : (EnsureConnectionReturn(i, connected) /\ Fault(~connected))
    \/ (ConsumeQueueResolve(i) /\ Fault(FALSE))
    \/ (ConsumeQueueReject(i) /\ Fault(TRUE))

SpecFair == Init /\ [][NextFair]_vars /\ WF_vars(TimerSteps) /\ WF_vars(BusClientSteps)

(***************************************************************************)
(* Prompts over HTTP and over the push channel.  The client of POST /chat  *)
(* sends its next prompt when nothing of the one before is pending.        *)
(***************************************************************************)
PostQuiet(r) ==
  /\ posts[r].pc \in {"refused", "done", "drain"}
  /\ ~posts[r].testTimer /\ ~posts[r].checkTimer /\ ~posts[r].completionTimer
  /\ ~posts[r].drainTimers /\ ~posts[r].queueCheckTimeout
  /\ posts[r].drainSubscribe # "pending"

\* The steps of the POST /chat requests in R.
PostSteps(R) ==
  \/ \E r \in R : \E body \in PostInputs(r) :
       ((\A k \in 1..(r - 1) : PostQuiet(k)) /\ ChatRequest(r, body) /\ Fault(FALSE))
  \/ \E r \in R : (ChatTestTimer(r) /\ Fault(FALSE))
  \/ \E r \in R : \E ok \in BOOLEAN : \E reply \in ChatReplies :
       (ChatFetchReturn(r, ok, reply) /\ Fault(~ok))
  \/ \E r \in R : (ChatQueueTimeout(r) /\ Fault(FALSE))
  \/ \E r \in R : (ChatSubscribeResolve(r) /\ Fault(FALSE))
  \/ \E r \in R : (ChatSubscribeReject(r) /\ Fault(TRUE))
  \/ \E r \in R : (ChatCheckTimer(r) /\ Fault(FALSE))
  \/ \E r \in R : (ChatCompletionTimer(r) /\ Fault(FALSE))
  \/ \E r \in R : \E m \in PostBusInputs : (ChatDeliver(r, m) /\ Fault(FALSE))
  \/ \E r \in R : (ChatFinish(r) /\ Fault(FALSE))
  \/ \E r \in R : \E ok \in BOOLEAN : \E sessions \in SessionNamesReplies :
       (ChatSessionNamesReturn(r, ok, sessions) /\ Fault(~ok))
  \/ \E r \in R : (ChatDrainTimers(r) /\ Fault(FALSE))
  \/ \E r \in R : (ChatDrainSubscribeResolve(r) /\ Fault(FALSE))
  \/ \E r \in R : (ChatDrainSubscribeReject(r) /\ Fault(FALSE))
  \/ \E r \in R : \E m \in PostBusInputs : (ChatDrainDeliver(r, m) /\ Fault(FALSE))

NextHttp == LoginStep \/ PostSteps(1..MaxRich)

SpecHttp == Init /\ [][NextHttp]_vars

(***************************************************************************)
(* A session filled with prompts: POST /chat requests that nothing         *)
(* disturbs, one after the other, and one prompt over the push channel.    *)
(***************************************************************************)
PlainSteps ==
  \/ \E r \in 1..MaxPosts : \E body \in PostInputs(r) :
       (/\ \A k \in 1..(r - 1) : PostQuiet(k)
        /\ body.user_id = EmptyStr
        /\ ChatRequest(r, body)
        /\ Fault(FALSE))
  \/ \E r \in 1..MaxPosts : (ChatTestTimer(r) /\ Fault(FALSE))
  \/ \E r \in 1..MaxPosts : \E reply \in ChatReplies :
       (~reply.complete /\ ChatFetchReturn(r, TRUE, reply) /\ Fault(FALSE))
  \/ \E r \in 1..MaxPosts : (ChatSubscribeResolve(r) /\ Fault(FALSE))
  \/ \E r \in 1..MaxPosts : (ChatCheckTimer(r) /\ Fault(FALSE))
  \/ \E r \in 1..MaxPosts : (ChatFinish(r) /\ Fault(FALSE))

\* One prompt over the push channel when nothing fails.
PushSteps ==
  \/ \E data \in SendInputs(1, {SOCK_K}) : (SendChatMessage(1, data) /\ Fault(FALSE))
  \/ (EnsureConnectionReturn(1, TRUE) /\ Fault(FALSE))
  \/ (ConsumeQueueResolve(1) /\ Fault(FALSE))
  \/ (FetchReturn(1, "ok") /\ Fault(FALSE))
  \/ (SuccessTimerFire(1) /\ Fault(FALSE))
  \/ (CleanupTimerFire(1) /\ Fault(FALSE))

NextLimit == LoginStep \/ PlainSteps \/ PushSteps

SpecLimit == Init /\ [][NextLimit]_vars

(***************************************************************************)
(* The session index of a user whose sessions Upstream knows as well: a    *)
(* session made locally, then /sessionName requests that Upstream answers  *)
(* with that session or with that session and one more.                    *)
(***************************************************************************)
CacheInputs ==
  {SyncMessage("arrays", USER_U, sessions) :
     sessions \in {<<SyncEntry(SESSION_1, TITLE_A)>>,
                   <<SyncEntry(SESSION_1, TITLE_A), SyncEntry(SESSION_2, TITLE_B)>>}}

NextCache ==
  \/ LoginStep
  \/ (Len(minted) < MaxLocal /\ ChatSession(EmptyStr, TITLE_B) /\ Fault(FALSE))
  \/ \E j \in 1..MaxSyncs :
       ((\A k \in 1..(j - 1) : syncs[k].pc = "done") /\ SessionNameRequest(j) /\ Fault(FALSE))
  \/ \E j \in 1..MaxSyncs : (SessionNameSubscribeResolve(j) /\ Fault(FALSE))
  \/ \E j \in 1..MaxSyncs : (SessionNameFetchReturn(j, "ok") /\ Fault(FALSE))
  \/ \E j \in 1..MaxSyncs : (SessionNameFinish(j, TRUE) /\ Fault(FALSE))
  \/ \E j \in 1..MaxSyncs : \E message \in CacheInputs :
       (SessionNameDeliver(j, message, TRUE) /\ Fault(FALSE))

SpecCache == Init /\ [][NextCache]_vars

(***************************************************************************)
(* A chat streaming in session 10 or in session 1 and a stop aimed at       *)
(* session 1 or at session 10.                                              *)
(***************************************************************************)
SESSION_10 == <<"1", "0">>

AimSessions == {SESSION_1, SESSION_10}

AimInputs ==
  {[userId |-> EmptyStr, session_id |-> session, chat_id |-> ChatIdOf(1),
    instance_id |-> EmptyStr, llm_model_id |-> MODEL_THINK, prompt |-> PROMPT_HELLO,
    roomId |-> RoomId(USER_U, session, ChatIdOf(1), EmptyStr), sock |-> sock]
     : session \in AimSessions, sock \in Sockets}

AimStops ==
  {[user_id |-> EmptyStr, session_id |-> session, chat_id |-> ChatIdOf(1),
    instance_id |-> EmptyStr] : session \in AimSessions}

NextAim ==
  \/ LoginStep
  \/ \E data \in AimInputs : (SendChatMessage(1, data) /\ Fault(FALSE))
  \/ (EnsureConnectionReturn(1, TRUE) /\ Fault(FALSE))
  \/ (ConsumeQueueResolve(1) /\ Fault(FALSE))
  \/ (FetchReturn(1, "ok") /\ Fault(FALSE))
  \/ \E m \in BusShapes({TEXT_HEY}, ChatIdOf(1), ChatIdOf(1)) :
       (BusDeliver(1, m) /\ Fault(FALSE))
  \/ \E body \in AimStops : (Truthy(currentUserId) /\ StopRequest(1, body) /\ Fault(FALSE))
  \/ (StopFetchReturn(1, "ok") /\ Fault(FALSE))
  \/ (StopCancelReturn(1, TRUE) /\ Fault(FALSE))

SpecAim == Init /\ [][NextAim]_vars

(***************************************************************************)
(* Chats of one session, one after the other on a connection whose tag the *)
(* stop matches, and stops aimed at the latest of them, when nothing fails. *)
(***************************************************************************)
NextScrub ==
  \/ LoginStep
  \/ \E i \in 1..MaxInv : \E data \in SendInputs(i, {SOCK_XU}) :
       (/\ \A k \in 1..(i - 1) : chats[k].pc = "done" /\ k \notin liveConsumers
        /\ \A j \in 1..MaxStops : stops[j].pc \in {"idle", "done"}
        /\ SendChatMessage(i, data)
        /\ Fault(FALSE))
  \/ \E i \in 1..MaxInv : (EnsureConnectionReturn(i, TRUE) /\ Fault(FALSE))
  \/ \E i \in 1..MaxInv : (ConsumeQueueResolve(i) /\ Fault(FALSE))
  \/ \E i \in 1..MaxInv : (FetchReturn(i, "ok") /\ Fault(FALSE))
  \/ \E i \in 1..MaxInv : (CleanupTimerFire(i) /\ Fault(FALSE))
  \/ \E i \in 1..MaxInv : \E m \in BusShapes({TEXT_HEY}, ChatIdOf(i), ChatIdOf(i)) :
       (busCount < MaxChatBus /\ BusDeliver(i, m) /\ Fault(FALSE))
  \/ \E j \in 1..MaxStops : \E body \in StopInputs :
       (/\ \A k \in 1..(j - 1) : stops[k].pc = "done"
        /\ body.chat_id = ChatIdOf(Max({i \in 1..MaxInv : chats[i].pc # "idle"}))
        /\ StopRequest(j, body)
        /\ Fault(FALSE))
  \/ \E j \in 1..MaxStops : (StopFetchReturn(j, "ok") /\ Fault(FALSE))
  \/ \E j \in 1..MaxStops : (StopCancelReturn(j, TRUE) /\ Fault(FALSE))

SpecScrub == Init /\ [][NextScrub]_vars

(***************************************************************************)
(* One prompt over HTTP and one over the push channel in one session, in  *)
(* either order.                                                           *)
(***************************************************************************)
NextReplay == LoginStep \/ PostSteps(1..MaxSolo) \/ PushSteps

SpecReplay == Init /\ [][NextReplay]_vars

(***************************************************************************)
(* Properties.                                                             *)
(***************************************************************************)
Started(i) == chats[i].pc # "idle" /\ Truthy(chats[i].user)

CompletesIn(room) ==
  {k \in 1..Len(emitted) : emitted[k].type = "complete" /\ emitted[k].room = room}

C2_CompleteIsTerminal ==
  \A k, l \in 1..Len(emitted) :
    (k < l /\ emitted[k].type = "complete" /\ emitted[l].room = emitted[k].room)
      => emitted[l].type \notin {"stream", "move_to_thinking", "thinking_complete"}

\* C3: for every user, after any sequence of catalog operations the catalog holds at
\* most 10 entries of that user.
C3_CatalogBound ==
  \A k \in 1..Len(globalSessionNames) :
    Len(UserSessions(globalSessionNames, globalSessionNames[k].user_id)) <= SESSION_LIMIT

\* C4: cross-chat isolation: a Bus message produced for chat a is never emitted as a
\* 'stream' event on the room of a chat b with another chat id, whether or not the
\* message carries a chat_id field.
C4_CrossChatIsolation ==
  \A k \in 1..Len(emitted) :
    emitted[k].type = "stream" => emitted[k].origin = emitted[k].chat_id

StopReturns(j) == stops[j].pc # "done" /\ stops'[j].pc = "done"

IncompleteOf(history, s) ==
  {k \in 1..Len(HistoryOf(history, SessionKey(s.user, s.session))) :
     /\ HistoryOf(history, SessionKey(s.user, s.session))[k].chat_id = s.chat
     /\ ~HistoryOf(history, SessionKey(s.user, s.session))[k].isComplete}

\* C5: when a stop(userId, sessionId, chatId) call returns, the transcript of
\* (userId, sessionId) holds no message of chatId that is incomplete, whether or not
\* a consumer of the chat was live or matched.
C5_StopLeavesNoIncomplete ==
  [][\A j \in 1..MaxStops :
       StopReturns(j) => IncompleteOf(globalChatHistory', stops'[j]) = {}]_vars

\* C6: for every outcome of the Upstream stop call (success, non-success status,
\* network error, timeout), when stop returns it has emitted a 'complete' event of a
\* stop to the chat's room, no consumer of the chat is live and no incomplete message
\* of the chat is left.
C6_StopCleansUpOnEveryOutcome ==
  [][\A j \in 1..MaxStops :
       StopReturns(j) =>
         /\ \E k \in 1..Len(emitted') :
              /\ emitted'[k].type = "complete"
              /\ emitted'[k].completion_type \in {"user_stopped", "timeout_stopped"}
              /\ emitted'[k].chat_id = stops'[j].chat
         /\ \A c \in liveConsumers' : chats[c].chat # stops'[j].chat
         /\ IncompleteOf(globalChatHistory', stops'[j]) = {}]_vars

\* C7: at every reachable state at most one Bus chat consumer is live per
\* (userId, sessionId).
C7_OneLiveConsumerPerSession ==
  \A c, d \in liveConsumers :
    (chats[c].user = chats[d].user /\ chats[c].session = chats[d].session) => c = d

\* The chat of invocation i has terminated and nothing of it is pending: the handler
\* returned, the subscription settled and every timer has fired.
Settled(i) ==
  /\ chats[i].pc = "done"
  /\ chats[i].isStreamingComplete
  /\ chats[i].subscribe \in {"resolved", "rejected"}
  /\ chats[i].cleanupTimers = 0
  /\ ~chats[i].successTimer
  /\ ~chats[i].completionTimeout

\* C8: once a chat has terminated (Bus completion, post-reply timer, safety timer,
\* Upstream error, network error) and all its timers have fired, with no later chat
\* started, its consumer is cancelled and its slot (the tracked consumer, the stream
\* table entry, the token buffer) is released.
C8_SlotReleasedAfterTermination ==
  \A i \in 1..MaxInv :
    (Settled(i) /\ \A k \in (1..MaxInv) \ {i} : chats[k].pc = "idle")
      => /\ i \notin liveConsumers
         /\ globalActiveConsumer # i
         /\ ~Has(globalStreamingSessions, SessionKey(chats[i].user, chats[i].session))
         /\ ~Has(tokenBuffers, SessionKey(chats[i].user, chats[i].session))

\* C9: after logout and until the next login, every catalog, transcript, counter,
\* token buffer, thinking buffer and the stream table are empty and no user is
\* logged in, whatever callbacks of earlier chats run.
C9_EmptyAfterLogout ==
  lastReply.endpoint = "logout"
    => /\ globalSessionNames = << >>
       /\ globalChatHistory = EmptyMap
       /\ sessionMessageCounts = EmptyMap
       /\ foreignLastSessionIds = EmptyMap
       /\ sessionCounters = EmptyMap
       /\ thinkingContentBuffer = EmptyMap
       /\ tokenBuffers = EmptyMap
       /\ globalStreamingSessions = EmptyMap
       /\ currentUserId = EmptyStr

\* C10: for every user, the session ids minted by getNextSessionId since the last
\* logout are strictly increasing in the order they were minted and each is
\* strictly greater than the last Upstream session id recorded at login, across
\* mints and logins, a repeated login without a logout included.
C10_IdsStrictlyIncreasing ==
  /\ \A i, j \in 1..Len(minted) :
       (i < j /\ minted[i].user = minted[j].user)
         => ParseInt(minted[i].id) < ParseInt(minted[j].id)
  /\ \A i \in 1..Len(minted) : ParseInt(minted[i].id) > minted[i].last

\* The title the payload gives to session id: the one of its last entry for the id.
UpstreamTitle(payload, id) ==
  payload[Max({k \in 1..Len(payload) : payload[k].S_id = id})].title

\* The catalog entries of session id of a user.
EntriesOf(names, user_id, id) ==
  {k \in 1..Len(names) : names[k].user_id = user_id /\ names[k].session_id = id}

\* C11: when a /sessionName request consumes an Upstream payload from the
\* session-index queue, then for every session id of the payload the catalog holds an
\* entry of that id for the user and its title is the Upstream title, whatever the
\* local title was.
C11_UpstreamTitlePrecedence ==
  [][\A j \in 1..MaxSyncs :
       (syncs[j].consumed = << >> /\ syncs'[j].consumed # << >>)
         => \A k \in 1..Len(syncs'[j].consumed) :
              /\ EntriesOf(globalSessionNames', syncs'[j].user,
                           syncs'[j].consumed[k].S_id) # {}
              /\ \A n \in EntriesOf(globalSessionNames', syncs'[j].user,
                                    syncs'[j].consumed[k].S_id) :
                   globalSessionNames'[n].title
                     = UpstreamTitle(syncs'[j].consumed, syncs'[j].consumed[k].S_id)]_vars

\* A sync has overwritten the title of a session that was created locally.
C11_Witness ==
  \E j \in 1..MaxSyncs : \E n \in 1..Len(globalSessionNames) :
    /\ syncs[j].consumed # << >>
    /\ globalSessionNames[n].source = "local_updated_from_rabbitmq"
    /\ globalSessionNames[n].title = TITLE_A
    /\ globalSessionNames[n].user_id = syncs[j].user

\* The texts of the 'stream' events among the first n events sent, one after the
\* other.
RECURSIVE StreamedText(_)
StreamedText(n) ==
  IF n = 0 THEN EmptyStr
  ELSE StreamedText(n - 1) \o (IF emitted[n].type = "stream" THEN emitted[n].content
                               ELSE EmptyStr)

\* The texts of the events among the first n that were sent with isPendingThinking.
RECURSIVE PendingSent(_)
PendingSent(n) ==
  IF n = 0 THEN << >>
  ELSE PendingSent(n - 1) \o (IF emitted[n].isPendingThinking THEN <<emitted[n].content>>
                              ELSE << >>)

\* C12: whenever a 'move_to_thinking' event with content X is sent for a chat, the
\* texts of the 'stream' events sent before it for the chat, put together, contain X
\* as a contiguous substring, and its pendingTokens are exactly the tokens sent with
\* isPendingThinking, however the text was cut into tokens.
C12_ThinkingSoundness ==
  \A k \in 1..Len(emitted) :
    emitted[k].type = "move_to_thinking"
      => /\ Includes(StreamedText(k - 1), emitted[k].content)
         /\ emitted[k].pendingTokens = PendingSent(k - 1)

\* The transcript holds a user message and an assistant message of the chat of
\* invocation i, both complete.
PairedComplete(history, s) ==
  \E k, l \in 1..Len(HistoryOf(history, SessionKey(s.user, s.session))) :
    /\ HistoryOf(history, SessionKey(s.user, s.session))[k].chat_id = s.chat
    /\ HistoryOf(history, SessionKey(s.user, s.session))[k].role = "user"
    /\ HistoryOf(history, SessionKey(s.user, s.session))[k].isComplete
    /\ HistoryOf(history, SessionKey(s.user, s.session))[l].chat_id = s.chat
    /\ HistoryOf(history, SessionKey(s.user, s.session))[l].role = "assistant"
    /\ HistoryOf(history, SessionKey(s.user, s.session))[l].isComplete

\* C13: after a chat has terminated by any path (Bus completion, a timer, an Upstream
\* error, stop) and no other invocation of the same chat is running, the transcript
\* holds the chat's user message and assistant message both complete, or no
\* incomplete message of the chat.
C13_PairedOrScrubbed ==
  \A i \in 1..MaxInv :
    (/\ Settled(i)
     /\ \A k \in (1..MaxInv) \ {i} : chats[k].pc = "idle" \/ Settled(k))
      => \/ PairedComplete(globalChatHistory, chats[i])
         \/ IncompleteOf(globalChatHistory, chats[i]) = {}

\* Sequence a is sequence b with some elements left out.
RECURSIVE IsSubsequence(_, _)
IsSubsequence(a, b) ==
  IF a = << >> THEN TRUE
  ELSE IF b = << >> THEN FALSE
  ELSE IF Head(a) = Head(b) THEN IsSubsequence(Tail(a), Tail(b))
  ELSE IsSubsequence(a, Tail(b))

IsCompleteMessage(msg) == msg.isComplete

\* C14: once a message of a transcript has isComplete = true, no later step (token
\* append, thinking persistence, completion marking of a later chat, stop scrub)
\* changes a field of it or removes it, as long as the transcript itself is kept
\* (eviction, deletion and logout remove the whole transcript).
C14_CompleteIsFrozen ==
  [][\A key \in DOMAIN globalChatHistory :
       Has(globalChatHistory', key)
         => IsSubsequence(SelectSeq(globalChatHistory[key], IsCompleteMessage),
                          globalChatHistory'[key])]_vars

\* C15: under fair timers every admitted chat eventually has a 'complete' event
\* emitted to its room, also when the Bus never delivers a message for it and when
\* the Upstream HTTP call never returns.
C15_EventuallyComplete ==
  \A i \in 1..MaxSolo :
    Started(i) ~> (CompletesIn(chats[i].room) # {})

\* The session of the key has reached the prompt limit: one more prompt makes its
\* chat count exceed the limit.
AtLimit(key) == Has(sessionMessageCounts, key) /\ sessionMessageCounts[key] >= PROMPT_LIMIT

\* C16: a prompt for a session whose chat count it makes exceed 15 is rejected with
\* the limit error, starts no consumer and appends nothing to the transcript, over
\* POST /chat and over send-chat-message of the push channel alike.
C16_LimitAtEveryEntry ==
  [][/\ \A r \in 1..MaxPosts :
          (/\ posts[r].pc = "idle" /\ posts'[r].pc # "idle"
           /\ AtLimit(SessionKey(posts'[r].user, posts'[r].session)))
            => /\ posts'[r].pc = "refused"
               /\ lastReply' = [endpoint |-> "chat", status |-> 429]
               /\ globalChatHistory' = globalChatHistory
     /\ \A i \in 1..MaxInv :
          (/\ chats[i].pc = "idle" /\ chats'[i].pc # "idle"
           /\ AtLimit(SessionKey(chats'[i].user, chats'[i].session)))
            => /\ chats'[i].pc = "done"
               /\ globalChatHistory' = globalChatHistory]_vars

\* C17: while no current user is bound, every prompt submission (POST /chat or
\* send-chat-message) is refused and changes neither a transcript, nor the catalog,
\* nor the consumers, whatever user id the request carries.
C17_NoUserNoPrompt ==
  [][(~Truthy(currentUserId)) =>
       /\ \A r \in 1..MaxPosts :
            (posts[r].pc = "idle" /\ posts'[r].pc # "idle")
              => /\ posts'[r].pc = "refused"
                 /\ globalChatHistory' = globalChatHistory
                 /\ globalSessionNames' = globalSessionNames
                 /\ postConsumers' = postConsumers
       /\ \A i \in 1..MaxInv :
            (chats[i].pc = "idle" /\ chats'[i].pc # "idle")
              => /\ chats'[i].pc = "done"
                 /\ globalChatHistory' = globalChatHistory
                 /\ globalSessionNames' = globalSessionNames
                 /\ globalConsumerCount' = globalConsumerCount]_vars

\* The events of the step end with an 'error' event and then a 'complete' event
\* to the room.
ErrorThenComplete(before, after, room) ==
  /\ Len(after) >= Len(before) + 2
  /\ after[Len(after) - 1].type = "error" /\ after[Len(after) - 1].room = room
  /\ after[Len(after)].type = "complete" /\ after[Len(after)].room = room

\* C18: when the Bus connection is unusable at acquire time (ensureConnection answers
\* false, or the subscription is rejected), the chat emits 'error' and then 'complete'
\* to its room and leaves no entry of its session in the active-stream table.
C18_AcquireFailureReported ==
  [][\A i \in 1..MaxInv :
       (\/ chats[i].pc = "ensure" /\ chats'[i].pc = "done"
        \/ chats[i].subscribe = "pending" /\ chats'[i].subscribe = "rejected")
         => /\ ErrorThenComplete(emitted, emitted', chats[i].room)
            /\ ~Has(globalStreamingSessions', SessionKey(chats[i].user, chats[i].session))]_vars

\* C19: in every handler that consumes a queue (send-chat-message, POST /chat,
\* POST /sessionName) the subscription to the queue has been made by the time the
\* HTTP request to Upstream that triggers the publication is under way.
C19_SubscribedBeforeRequest ==
  /\ \A r \in 1..MaxPosts : posts[r].pc = "fetch" => posts[r].subscribe # "none"
  /\ \A i \in 1..MaxInv : chats[i].pc = "fetch" => chats[i].subscribe # "none"
  /\ \A j \in 1..MaxSyncs : syncs[j].pc = "fetch" => syncs[j].subscribe # "none"

\* The step answers a POST /chatsession.
CreatesSession == Len(minted') = Len(minted) + 1 /\ lastReply'.endpoint = "chatsession"

\* C20: when a session is created for a user who has 10 or more catalog entries, the
\* entry with the numerically smallest session id is evicted with its transcript,
\* its message counter and its thinking buffer, the user's catalog is as large after
\* the insert as before, and the response names the evicted session.
C20_EvictOnCreate ==
  [][(/\ CreatesSession
      /\ Len(UserSessions(globalSessionNames, lastReply'.user_id)) >= SESSION_LIMIT)
       => LET user == lastReply'.user_id
              before == UserSessions(globalSessionNames, user)
              oldest == OldestSession(before)
              key == SessionKey(user, oldest.session_id)
          IN  /\ Len(lastReply'.deleted_session) = 1
              /\ lastReply'.deleted_session[1].session_id = oldest.session_id
              /\ \A k \in 1..Len(globalSessionNames') :
                   ~(/\ globalSessionNames'[k].user_id = user
                     /\ globalSessionNames'[k].session_id = oldest.session_id)
              /\ ~Has(globalChatHistory', key)
              /\ ~Has(sessionMessageCounts', key)
              /\ ~Has(thinkingContentBuffer', key)
              /\ Len(UserSessions(globalSessionNames', user)) = Len(before)]_vars

\* C21: whenever POST /stop answers success with cleanup_completed true for a
\* targeted chat (user, session, chat), no consumer that this chat subscribed is
\* live any more.
C21_StopCancelsConsumer ==
  [][\A j \in 1..MaxStops :
       (/\ StopReturns(j)
        /\ Truthy(stops'[j].session) /\ Truthy(stops'[j].chat)
        /\ lastReply'.status = 200 /\ lastReply'.cleanup_completed)
         => \A i \in liveConsumers' :
              ~(/\ chats'[i].user = stops'[j].user
                /\ chats'[i].session = stops'[j].session
                /\ chats'[i].chat = stops'[j].chat)]_vars

\* The text received from the Bus for the session of the key so far, in the order
\* of its arrival.
ReceivedText(key) == IF Has(tokenBuffers, key) THEN tokenBuffers[key].fullContent ELSE EmptyStr

\* C22: within one chat the text of the 'stream' events is in Bus-receive order and
\* no piece of Bus text is streamed more than once: put together, the streamed texts
\* are the received text with pieces left out, whatever the cut into tokens.
C22_StreamInOrderOnce ==
  IsSubsequence(StreamedText(Len(emitted)), ReceivedText(SessionKey(USER_U, STR_1)))

\* Chat i has acquired its consumer and has not terminated: no 'complete' event has
\* been sent to its room and its handler has not closed the stream.
Streaming(i) ==
  /\ Started(i)
  /\ chats[i].subscribe = "resolved"
  /\ ~chats[i].isStreamingComplete
  /\ CompletesIn(chats[i].room) = {}

\* C23: every chat that streams has its consumer live and its entry in the
\* active-stream table under (user, session); a chat started in another session
\* takes neither away.
C23_OneConsumerOneEntry ==
  \A i \in 1..MaxInv :
    Streaming(i)
      => /\ i \in liveConsumers
         /\ Has(globalStreamingSessions, SessionKey(chats[i].user, chats[i].session))

\* Request r was admitted and its handler has run to its end: the streaming is marked
\* complete (the consumer callback ignores every later message), the subscription
\* has settled and no timer of the request is armed, so that no later step writes
\* to its response.
PostAtRest(r) ==
  /\ posts[r].pc = "done"
  /\ posts[r].isStreamingComplete
  /\ posts[r].subscribe # "pending"
  /\ PostQuiet(r)

\* C24: every admitted POST /chat request ends its chunked response, and the last
\* line of the response is 'complete' or 'error', also when the old transcript was
\* replayed or a token was written to the response before.  Stated for the requests
\* whose handler has run to its end.
C24_ResponseEnded ==
  \A r \in 1..MaxPosts :
    PostAtRest(r)
      => /\ posts[r].ended
         /\ Len(posts[r].written) > 0
         /\ posts[r].written[Len(posts[r].written)] \in {"complete", "error"}

\* The Upstream request of chat i failed to be sent or timed out, and nothing else
\* has ended the chat: the only 'complete' events of its room report the network
\* error.
OnlyNetworkFailed(i) ==
  /\ \E k \in CompletesIn(chats[i].room) : emitted[k].completion_type = "network_error"
  /\ \A k \in CompletesIn(chats[i].room) : emitted[k].completion_type = "network_error"

\* m is a token of the chat of invocation i.
TokenFor(i, m) ==
  /\ m.type = TYPE_TOKEN
  /\ m.origin = chats[i].chat
  /\ m.chat_id \in {EmptyStr, chats[i].chat}

\* C25: a network failure or a timeout of the Upstream chat request does not stop
\* the consumption: a token of the chat that its consumer receives afterwards is
\* still sent to the room as a 'stream' event.
C25_ConsumesAfterNetworkFailure ==
  [][\A i \in 1..MaxInv : \A m \in BusInputs({TEXT_HEY}) :
       (OnlyNetworkFailed(i) /\ TokenFor(i, m) /\ BusDeliver(i, m))
         => /\ Len(emitted') > Len(emitted)
            /\ \E k \in (Len(emitted) + 1)..Len(emitted') :
                 emitted'[k].type = "stream" /\ emitted'[k].room = chats[i].room]_vars

\* C26: for a model whose profile does not support thinking the parser passes the
\* tokens through: every token received yields exactly one 'stream' event whose
\* content is the token, tokens of whitespace included.
C26_PlainPassThrough ==
  [][\A token \in ParserTokens :
       (/\ ~MODEL_TYPES(getModelNameFromId(MODEL_PLAIN)).supports_thinking
        /\ StreamToken(token, USER_U, MODEL_PLAIN))
         => /\ Len(emitted') = Len(emitted) + 1
            /\ emitted'[Len(emitted')].type = "stream"
            /\ emitted'[Len(emitted')].content = token]_vars


\* The events a step sends, in order.
NewEvents == SubSeq(emitted', Len(emitted) + 1, Len(emitted'))

\* The parser's buffer of the chat (user u, session 1) before a step.
BufferBefore ==
  IF Has(tokenBuffers, SessionKey(USER_U, STR_1))
  THEN tokenBuffers[SessionKey(USER_U, STR_1)]
  ELSE NewTokenBuffer(MODEL_THINK)

\* The text between the start tag and the end tag once the token is received while
\* the buffer is in thinking mode, trimmed (part_000 268-273).
InteriorWith(token) ==
  Trim(Substring(BufferBefore.thinkingContent \o token, 0,
                 IndexOf(BufferBefore.thinkingContent \o token, THINK_END)))

\* The token closes a thinking region whose interior is not empty: 'move_to_thinking'
\* with the interior is sent and 'thinking_complete' directly after it, and the
\* buffer has left thinking mode with no pending tokens (part_000 274-334).
MoveThenComplete(token) ==
  (/\ BufferBefore.isInThinking
   /\ Includes(BufferBefore.thinkingContent \o token, THINK_END)
   /\ Truthy(InteriorWith(token)))
    => /\ \E k \in 1..(Len(NewEvents) - 1) :
            /\ NewEvents[k].type = "move_to_thinking"
            /\ NewEvents[k].content = InteriorWith(token)
            /\ NewEvents[k + 1].type = "thinking_complete"
       /\ ~tokenBuffers'[SessionKey(USER_U, STR_1)].isInThinking
       /\ tokenBuffers'[SessionKey(USER_U, STR_1)].pendingThinkingTokens = << >>

\* The first event of the step shows the token in the main lane.
ShownFirst(token, pending) ==
  /\ Len(NewEvents) >= 1
  /\ NewEvents[1].type = "stream"
  /\ NewEvents[1].content = token
  /\ NewEvents[1].isPendingThinking = pending

EmptyRegionThenText(region) ==
  /\ Has(tokenBuffers, SessionKey(USER_U, STR_1))
  /\ Len(tokenBuffers[SessionKey(USER_U, STR_1)].tokens) >= Len(region)
  /\ \A k \in 1..Len(tokenBuffers[SessionKey(USER_U, STR_1)].tokens) :
       tokenBuffers[SessionKey(USER_U, STR_1)].tokens[k]
         = (IF k <= Len(region) THEN region[k] ELSE TOKEN_H)

\* One plain 'stream' event per text token that followed the region, each with the
\* token as its content, and no other event.
FollowersOnce(region) ==
  /\ Len(emitted) = Len(tokenBuffers[SessionKey(USER_U, STR_1)].tokens) - Len(region)
  /\ \A k \in 1..Len(emitted) :
       /\ emitted[k].type = "stream"
       /\ emitted[k].content = TOKEN_H
       /\ ~emitted[k].isPendingThinking

\* C28: for a thinking model, when the thinkStart tag is directly followed by the
\* thinkEnd tag, in two tokens or in one, no 'move_to_thinking', 'thinking' or
\* 'thinking_complete' event is sent, no tag is shown, and every text token that
\* follows is sent exactly once as 'stream'.
C28_EmptyRegionSkipped ==
  \A region \in {<<THINK_START, THINK_END>>, <<EMPTY_PAIR>>} :
    EmptyRegionThenText(region) => FollowersOnce(region)


\* The assistant messages of the transcript of (user u, session 1) that are complete
\* and carry thinking text.
ThinkingAnswers ==
  {k \in 1..Len(HistoryOf(globalChatHistory, SessionKey(USER_U, SESSION_1))) :
     /\ HistoryOf(globalChatHistory, SessionKey(USER_U, SESSION_1))[k].role = "assistant"
     /\ HistoryOf(globalChatHistory, SessionKey(USER_U, SESSION_1))[k].isComplete
     /\ HistoryOf(globalChatHistory, SessionKey(USER_U, SESSION_1))[k].hasThinking}

\* C29: for a thinking model, when the chat completes the assistant message holds the
\* extracted interior in thinkingContent, and its content is the answer text only: it
\* holds no thinking tag and not the interior between the tags.
C29_AnswerWithoutThinking ==
  \A k \in ThinkingAnswers :
    LET msg == HistoryOf(globalChatHistory, SessionKey(USER_U, SESSION_1))[k]
    IN  /\ Truthy(msg.thinkingContent)
        /\ ~Includes(msg.content, THINK_START)
        /\ ~Includes(msg.content, THINK_END)
        /\ ~Includes(msg.content, THINK_START \o msg.thinkingContent \o THINK_END)


\* The ways a gpt-oss answer opens: the analysis tag, the thinking text and the
\* response start marker, with or without the end tag closing the analysis.
GptOssOpenings ==
  {<<GPT_ANALYSIS, TOKEN_H, GPT_RESPONSE_START>>,
   <<GPT_ANALYSIS, TOKEN_H, GPT_END, GPT_RESPONSE_START>>}

\* Event k moves the thinking text and not the answer, no 'stream' event after it
\* holds the thinking text, and the last event is the answer token as plain 'stream'.
MovedThenAnswer(k) ==
  /\ emitted[k].type = "move_to_thinking"
  /\ Includes(emitted[k].content, TOKEN_H)
  /\ ~Includes(emitted[k].content, TOKEN_B)
  /\ \A j \in (k + 1)..Len(emitted) :
       emitted[j].type = "stream" => ~Includes(emitted[j].content, TOKEN_H)
  /\ emitted[Len(emitted)].type = "stream"
  /\ emitted[Len(emitted)].content = TOKEN_B
  /\ ~emitted[Len(emitted)].isPendingThinking

\* C30: for a chat of the gpt-oss family, by model id "2" or by name "gpt-oss-20b",
\* thinking ends at the response start marker: once the marker and a token of the
\* answer have arrived, 'move_to_thinking' has moved the text before the marker, and
\* the answer token is streamed as plain 'stream' without the thinking text being
\* sent again.
C30_GptOssEndsAtMarker ==
  \A opening \in GptOssOpenings :
    (/\ Has(tokenBuffers, SessionKey(USER_U, STR_1))
     /\ tokenBuffers[SessionKey(USER_U, STR_1)].tokens = opening \o <<TOKEN_B>>)
      => \E k \in 1..Len(emitted) : MovedThenAnswer(k)


\* Bus message m carries the chat_id of another chat than the one invocation i, which
\* is still streaming, consumes for.
ForeignTo(i, m) ==
  /\ ~chats[i].isStreamingComplete
  /\ Truthy(m.chat_id)
  /\ m.chat_id # chats[i].chat

\* C31: a Bus message whose chat_id differs from the consuming chat's is ignored
\* without any effect: nothing is sent, and the chat's transcript, parser buffer,
\* message count (the total_tokens reported with 'complete', part_000 874-884) and
\* timers are unchanged.
C31_ForeignMessageIgnored ==
  [][\A i \in 1..MaxInv : \A m \in BusInputs({TEXT_HEY}) :
       (ForeignTo(i, m) /\ BusDeliver(i, m))
         => /\ emitted' = emitted
            /\ globalChatHistory' = globalChatHistory
            /\ tokenBuffers' = tokenBuffers
            /\ chats'[i].messageCount = chats[i].messageCount
            /\ chats'[i].completionTimeout = chats[i].completionTimeout
            /\ chats'[i].successTimer = chats[i].successTimer
            /\ chats'[i].cleanupTimers = chats[i].cleanupTimers]_vars


\* C32: when the cancel of a Bus consumer throws, the error is swallowed and the slot
\* is still freed: after forceCleanupAllConsumers, or forceCleanupConsumerForSession
\* on a matching consumer, has run, globalActiveConsumer is null whether the cancel
\* succeeded or not.
C32_SlotFreedOnCancelError ==
  [][\A ok \in BOOLEAN :
       (\/ \E i \in 1..MaxInv : CancelPriorReturn(i, ok)
        \/ \E j \in 1..MaxStops : StopCancelReturn(j, ok))
         => globalActiveConsumer' = 0]_vars


\* C33: after Upstream's reply succeeded, the timer armed by the reply sends 'complete'
\* only when the consumer has been idle for the idle window: when a Bus message of the
\* chat arrived within the window, the timer does not complete the chat.
C33_NoCompleteWhileStreaming ==
  [][\A i \in 1..MaxInv :
       (SuccessTimerFire(i) /\ chats[i].recentMessage)
         => emitted' = emitted]_vars


\* The chunks of a replay of n messages.
ReplayChunks(n) == <<"history_start">> \o [k \in 1..n |-> "history"] \o <<"history_end">>

\* POST /chat request r is admitted in this step: the transcript h of its session is
\* replayed first, message by message in transcript order, and the prompt is
\* appended to the transcript after the replay.
ReplayedOnAdmission(r) ==
  LET key == SessionKey(posts'[r].user, posts'[r].session)
      h == HistoryOf(globalChatHistory, key)
      h2 == HistoryOf(globalChatHistory', key)
  IN  /\ posts'[r].written = (IF Len(h) > 0 THEN ReplayChunks(Len(h)) ELSE << >>)
      /\ posts'[r].replayed = [k \in 1..Len(h) |-> [role |-> h[k].role,
                                                    content |-> h[k].content]]
      /\ Len(h2) = Len(h) + 1
      /\ SubSeq(h2, 1, Len(h)) = h
      /\ h2[Len(h2)].role = "user" /\ h2[Len(h2)].chat_id = posts'[r].chat

\* After the admission of request r the response only grows, by chunks that are no
\* replay chunks.
LiveAfterReplay(r) ==
  /\ posts'[r].replayed = posts[r].replayed
  /\ Len(posts'[r].written) >= Len(posts[r].written)
  /\ SubSeq(posts'[r].written, 1, Len(posts[r].written)) = posts[r].written
  /\ \A k \in (Len(posts[r].written) + 1)..Len(posts'[r].written) :
       posts'[r].written[k] \notin {"history_start", "history", "history_end"}

\* C34: for a chat on a session that has a transcript, over POST /chat or over the
\* push channel, the events delivered start with history_start, one history event
\* per prior message in transcript order and history_end, all before every live
\* event of the chat, and the prompt of the chat is not among the replayed messages.
C34_ReplayPrecedesLive ==
  [][/\ \A r \in 1..MaxSolo :
          /\ (posts[r].pc = "idle" /\ posts'[r].pc = "fetch") => ReplayedOnAdmission(r)
          /\ posts[r].pc \notin {"idle", "refused"} => LiveAfterReplay(r)
     /\ \A i \in 1..MaxSolo :
          (/\ chats[i].pc = "idle" /\ chats'[i].pc \notin {"idle", "done"}
           /\ Len(HistoryOf(globalChatHistory,
                            SessionKey(chats'[i].user, chats'[i].session))) > 0)
            => /\ Len(emitted') > Len(emitted)
               /\ emitted'[Len(emitted) + 1].type = "history_start"]_vars

\* The title under which a lookup finds session id of a user in the catalog: the
\* title of the first entry, none when there is no entry.
TitleOf(names, user_id, id) ==
  IF EntriesOf(names, user_id, id) = {} THEN EmptyStr
  ELSE names[Min(EntriesOf(names, user_id, id))].title

\* C35: when a chat with chat id "1" has completed and Upstream's reply to the chat
\* request carried a SESSION_NAME, the catalog entry of the chat's user and session
\* has that SESSION_NAME as its title, over POST /chat and over the push channel,
\* and the step that fetches the session names writes nothing to the response of
\* the chat.
C35_TitleFromUpstream ==
  [][/\ \A r \in 1..MaxSolo : \A ok \in BOOLEAN : \A sessions \in SessionNamesReplies :
          ChatSessionNamesReturn(r, ok, sessions)
            => /\ TitleOf(globalSessionNames', posts[r].user, posts[r].session)
                    = posts[r].SESSION_NAME
               /\ posts'[r].written = posts[r].written
               /\ posts'[r].ended = posts[r].ended
     /\ \A i \in 1..MaxSolo :
          (/\ chats'[i].pc = "done" /\ chats'[i].isStreamingComplete
           /\ ~chats'[i].successTimer
           /\ Truthy(chats'[i].replySessionName))
            => TitleOf(globalSessionNames', chats'[i].user, chats'[i].session)
                 = chats'[i].replySessionName]_vars

\* A catalog entry that came from Upstream: one a session-index sync added, or a
\* local one a sync overwrote with Upstream's data.
FromUpstream(session) == session.source \in {"rabbitmq", "local_updated_from_rabbitmq"}

\* C36: a /sessionName request of a logged-in user is answered from memory, without
\* a request to Upstream, exactly when the user's catalog holds at least one entry
\* that came from Upstream, a local entry that an earlier sync overwrote included;
\* otherwise the session data is requested from Upstream.
C36_CacheExactlyWhenUpstreamData ==
  [][\A j \in 1..MaxSyncs :
       (SessionNameRequest(j) /\ Truthy(currentUserId))
         => LET mine == UserSessions(globalSessionNames, currentUserId)
                served == /\ syncs'[j].pc = "done"
                          /\ lastReply'.source = "complete_cache_with_foreign_data"
            IN  /\ served <=> (\E k \in 1..Len(mine) : FromUpstream(mine[k]))
                /\ ~served <=> syncs'[j].pc = "fetch"]_vars

\* The session ids of a list of sessions of a reply or a payload.
IdsOf(sessions) == {sessions[k].S_id : k \in 1..Len(sessions)}

\* The sessions of a reply have the highest numeric session id first.
LatestFirst(sessions) ==
  \A a, b \in 1..Len(sessions) :
     a < b => SessionNum(sessions[a].S_id) >= SessionNum(sessions[b].S_id)

\* C37: the list a /sessionName request returns after it consumed an Upstream
\* payload holds the sessions of the user's catalog and of the payload, with the
\* highest numeric session id first and at most 10 entries, and every catalog
\* entry whose id was in the payload has titleSource 'rabbitmq'.
C37_MergedListSorted ==
  [][\A j \in 1..MaxSyncs :
       /\ \A message \in CacheInputs : \A ok \in BOOLEAN :
            (/\ SessionNameDeliver(j, message, ok)
             /\ syncs[j].promise = "pending" /\ syncs'[j].promise = "resolved"
             /\ Len(TransformSessions(message, syncs[j].user)) > 0)
              => LET transformed == TransformSessions(message, syncs[j].user)
                     mine == UserSessions(globalSessionNames, syncs[j].user)
                 IN  /\ IdsOf(syncs'[j].data)
                          = IdsOf(transformed) \cup IdsOf(ReplySessions(mine))
                     /\ LatestFirst(syncs'[j].data)
                     /\ \A k \in 1..Len(globalSessionNames') :
                          (/\ globalSessionNames'[k].user_id = syncs[j].user
                           /\ globalSessionNames'[k].session_id \in IdsOf(transformed))
                            => globalSessionNames'[k].titleSource = "rabbitmq"
       /\ (SessionNameFinish(j, TRUE) /\ syncs[j].promise = "resolved")
            => /\ lastReply'.sessions = Take(syncs[j].data, PAGE_LIMIT)
               /\ Len(lastReply'.sessions) <= PAGE_LIMIT]_vars

\* The catalog holds no two entries of one user with the same session id.
OneEntryPerSession(names) ==
  \A a, b \in 1..Len(names) :
     (names[a].user_id = names[b].user_id /\ names[a].session_id = names[b].session_id)
       => a = b

\* C38: the catalog never holds two entries of one user with the same session id,
\* whatever mints, prompts, syncs and session-name fetches happened, and the id
\* POST /chatsession mints is the id of no entry the user's catalog already holds.
C38_NoDuplicateSession ==
  [][/\ OneEntryPerSession(globalSessionNames')
     /\ Len(minted') > Len(minted)
          => EntriesOf(globalSessionNames, globalSessionNames'[1].user_id,
                       globalSessionNames'[1].session_id) = {}]_vars

ScrubbedFrom(old, new, chatId) ==
  LET kept == {k \in 1..Len(old) : old[k].chat_id # chatId \/ old[k].isComplete}
      Position(k) == Cardinality({x \in kept : x <= k})
  IN  /\ Len(new) = Cardinality(kept)
      /\ \A k \in kept : new[Position(k)] = old[k]

====
